---- MODULE Spec2Model ----
(***************************************************************************)
(* Branch-and-bound enumeration engine of GoMILP (package ilp).            *)
(*                                                                         *)
(* The model follows tree.go (enumerationTree: startSearch, checkSolution, *)
(* addNewProblems, bufferManager, solveWorker), subproblem.go (solve,      *)
(* branch, getChild, copy), branching.go (the three heuristics) and the    *)
(* milpProblem.solve entry point.                                          *)
(*                                                                         *)
(* Real numbers are fixed-point: a value v is stored as the integer        *)
(* v * Scale.  The external LP solver (gonum lp.Simplex) is an oracle: a   *)
(* solve step returns one of its two expected failures or a vector x that  *)
(* satisfies the branch-and-bound rows of the subproblem, with z = c.x.    *)
(***************************************************************************)
EXTENDS Integers, Sequences, FiniteSets, TLC

\* ---------------------------------------------------------------- bounds
\* number of solver goroutines started by startSearch (argument nworkers)
NumWorkers == 2
\* deepest subproblem whose relaxation may still be fractional
MaxDepth == 1

\* fixed-point scale: the real number v is represented by v * Scale
Scale == 4

Workers == 1..NumWorkers

\* values the LP oracle may give to one variable: 1.0, 1.5, 2.0
XVals == {Scale, Scale + Scale \div 2, 2 * Scale}

\* ------------------------------------------------------------ heuristics
BRANCH_MAXFUN == 0
BRANCH_MOST_INFEASIBLE == 1
BRANCH_NAIVE == 2

\* ------------------------------------------------------ decisions, errors
SUBPROBLEM_IS_DEGENERATE == "subproblem contains a degenerate (singular) matrix"
SUBPROBLEM_NOT_FEASIBLE == "subproblem has no feasible solution"
WORSE_THAN_INCUMBENT == "worse than incumbent"
BETTER_THAN_INCUMBENT_BRANCHING == "better than incumbent but not integer feasible, so branching"
BETTER_THAN_INCUMBENT_FEASIBLE == "better than incumbent and integer feasible, so replacing incumbent"

ErrInfeasible == "lp: problem is infeasible"
ErrSingular == "lp: A is singular"
INITIAL_RELAXATION_NOT_FEASIBLE == "initial relaxation is not feasible"
NO_INTEGER_FEASIBLE_SOLUTION == "no integer feasible solution found"
\* ctx.Err() of a cancelled or expired context
Cancelled == "context canceled"
NoErr == "nil"

\* absent pointer / zero value markers
Nil == [nil |-> TRUE]
NaN == "NaN"

\* ---------------------------------------------------------------- problems
\* the milpProblem instances the search is run on: objective c (scaled),
\* integrality mask and configured heuristic
Problems ==
  { [c |-> <<-Scale, -2 * Scale>>, integralityConstraints |-> <<TRUE, TRUE>>,
     branchingHeuristic |-> BRANCH_MAXFUN],
    [c |-> <<-Scale, -2 * Scale>>, integralityConstraints |-> <<TRUE, FALSE>>,
     branchingHeuristic |-> BRANCH_MOST_INFEASIBLE],
    [c |-> <<-Scale, -2 * Scale>>, integralityConstraints |-> <<TRUE, FALSE>>,
     branchingHeuristic |-> BRANCH_NAIVE],
    [c |-> <<-Scale, -2 * Scale>>, integralityConstraints |-> <<FALSE, FALSE>>,
     branchingHeuristic |-> BRANCH_MAXFUN] }

VARIABLES
  prob,            \* the milpProblem handed to solve
  workers,         \* the number of workers handed to solve
  ctxDone,         \* the context is cancelled / past its deadline
  mainPc,          \* position of the caller's goroutine (solve -> startSearch)
  caller,          \* who called checkSolution: "startSearch" (line 98) or "mainWait" (line 105)
  initialRelaxationSolution, \* startSearch's local: the solved root relaxation
                   \* (Nil again once it is handed to checkSolution, its last use)
  cur,             \* the candidate checkSolution is working on
  pending,         \* addNewProblems: subproblems not yet sent on toSolve
  incumbent,       \* enumerationTree.incumbent
  workInProgress,  \* enumerationTree.workInProgress
  idCurrent,       \* idSource.current
  toSolveClosed,   \* close(p.toSolve) has happened
  activeClosed,    \* close(p.active) has happened
  bmPc,            \* buffer manager goroutine: "idle", "run", "done"
  buffer,          \* bufferManager's local slice
  wPc,             \* worker goroutines: "idle", "recv", "solve", "post", "done"
  wProb,           \* the subproblem a worker took from active
  wCand,           \* the candidate a worker is posting
  sink,            \* calls received by the instrumentation, in order
  returned,        \* value startSearch returned (a *solution or Nil)
  result,          \* value solve returned: [sol, err]
  call,            \* a function examined on its own: its name and arguments
  out              \* what that function returned

vars == <<prob, ctxDone, mainPc, caller, initialRelaxationSolution, cur, pending, incumbent, workInProgress,
          idCurrent, toSolveClosed, activeClosed, bmPc, buffer, wPc, wProb, wCand,
          sink, returned, result, call, out, workers>>

\* ------------------------------------------------------------- arithmetic
Abs(v) == IF v < 0 THEN -v ELSE v

\* math.Trunc on a scaled value: rounds toward zero
Trunc(v) == IF v >= 0 THEN (v \div Scale) * Scale ELSE -(((-v) \div Scale) * Scale)

\* math.Floor on a scaled value
Floor(v) == (v \div Scale) * Scale

\* fractional part as returned by math.Modf (carries the sign of v)
ModfFrac(v) == v - Trunc(v)

RECURSIVE DotFrom(_, _, _)
DotFrom(c, x, i) == IF i > Len(c) THEN 0 ELSE c[i] * x[i] + DotFrom(c, x, i + 1)

\* objective value c.x reported by the LP solver (scaled by Scale * Scale)
Dot(c, x) == DotFrom(c, x, 1)

\* ------------------------------------------------------- branching.go
\* loop of maxFunBranchPoint from index i (0-based); candidateValue is never
\* reassigned by the code, so it is passed along unchanged
RECURSIVE MaxFunLoop(_, _, _, _, _)
MaxFunLoop(c, ic, i, candidateValue, currentCandidate) ==
  IF i >= Len(c) THEN currentCandidate
  ELSE IF ic[i + 1] /\ Abs(c[i + 1]) >= candidateValue
       THEN MaxFunLoop(c, ic, i + 1, candidateValue, i)
       ELSE MaxFunLoop(c, ic, i + 1, candidateValue, currentCandidate)

maxFunBranchPoint(c, ic) == MaxFunLoop(c, ic, 0, 0, 0)

\* loop of mostInfeasibleBranchPoint; it ranges over the vector it is given
\* and never reassigns candidateRemainder
RECURSIVE MostInfeasibleLoop(_, _, _, _, _)
MostInfeasibleLoop(c, ic, i, candidateRemainder, currentCandidate) ==
  IF i >= Len(c) THEN currentCandidate
  ELSE IF ic[i + 1] /\ (Scale \div 2) - ModfFrac(c[i + 1]) <= candidateRemainder
       THEN MostInfeasibleLoop(c, ic, i + 1, candidateRemainder, i)
       ELSE MostInfeasibleLoop(c, ic, i + 1, candidateRemainder, currentCandidate)

mostInfeasibleBranchPoint(c, ic) == MostInfeasibleLoop(c, ic, 0, Scale, 0)

\* first branch of naiveBranchPoint: the loop has no break
RECURSIVE NaiveFirstLoop(_, _, _)
NaiveFirstLoop(ic, i, branchOn) ==
  IF i >= Len(ic) THEN branchOn
  ELSE NaiveFirstLoop(ic, i + 1, IF ic[i + 1] THEN i ELSE branchOn)

\* second branch of naiveBranchPoint: the cursor loop; steps counts the
\* iterations, and -1 stands for a loop that never ends (no index is
\* integer constrained)
RECURSIVE NaiveCursorLoop(_, _, _, _)
NaiveCursorLoop(n, ic, cursor, steps) ==
  IF steps > n THEN -1
  ELSE LET c1 == IF cursor = n - 1 THEN -1 ELSE cursor
           c2 == c1 + 1
       IN IF ic[c2 + 1] THEN c2 ELSE NaiveCursorLoop(n, ic, c2, steps + 1)

\* variant of naiveBranchPoint: the cursor starts before index 0 instead of
\* at the last branched variable
naiveBranchPointFromStart(c, ic, bnbConstraints) ==
  IF Len(bnbConstraints) = 0
  THEN NaiveFirstLoop(ic, 0, 0)
  ELSE NaiveCursorLoop(Len(c), ic, -1, 0)

naiveBranchPoint(c, ic, bnbConstraints) ==
  IF Len(bnbConstraints) = 0
  THEN NaiveFirstLoop(ic, 0, 0)
  ELSE NaiveCursorLoop(Len(c), ic, bnbConstraints[Len(bnbConstraints)].branchedVariable, 0)

\* ------------------------------------------------------- subproblem.go
\* a row with factor at column branchOn (0-based) and zero elsewhere
UnitRow(n, branchOn, factor) == [i \in 1..n |-> IF i = branchOn + 1 THEN factor ELSE 0]

\* variant of copy: the bnb list is allocated but not filled from the
\* receiver's
copyEmptyList(p) ==
  [id |-> p.id, parent |-> p.id, bnbConstraints |-> <<>>, branchHeuristic |-> 0]

\* subProblem.copy: id and parent both take the id of the receiver, the bnb
\* list is copied element by element; branchHeuristic is not among the
\* fields the literal sets, so it is the zero value
copy(p) ==
  [id |-> p.id, parent |-> p.id,
   bnbConstraints |-> [k \in 1..Len(p.bnbConstraints) |-> p.bnbConstraints[k]],
   branchHeuristic |-> 0]

getChild(p, n, branchOn, factor, smallerOrEqualThan) ==
  LET child == copy(p)
      newConstraint == [branchedVariable |-> branchOn,
                        hsharp |-> smallerOrEqualThan,
                        gsharp |-> UnitRow(n, branchOn, factor)]
  IN [child EXCEPT !.bnbConstraints = Append(child.bnbConstraints, newConstraint)]

\* toInitialSubproblem lines 46-58: the objective and the integrality mask
\* of the initial subproblem, which every subproblem of the tree shares.
\* A problem with rows G gets one slack column for each row, with
\* objective 0 and no integrality constraint.
cNew ==
  IF "G" \in DOMAIN prob THEN prob.c \o [k \in DOMAIN prob.G |-> 0] ELSE prob.c

\* variant of intNew: the slack columns are marked integer-constrained
intNewSlackInteger ==
  IF "G" \in DOMAIN prob
  THEN prob.integralityConstraints \o [k \in DOMAIN prob.G |-> TRUE]
  ELSE prob.integralityConstraints

intNew ==
  IF "G" \in DOMAIN prob
  THEN prob.integralityConstraints \o [k \in DOMAIN prob.G |-> FALSE]
  ELSE prob.integralityConstraints

\* the variable solution.branch selects for the problem s.problem
BranchOn(s) ==
  CASE s.problem.branchHeuristic = BRANCH_MAXFUN ->
         maxFunBranchPoint(cNew, intNew)
    [] s.problem.branchHeuristic = BRANCH_MOST_INFEASIBLE ->
         mostInfeasibleBranchPoint(cNew, intNew)
    [] s.problem.branchHeuristic = BRANCH_NAIVE ->
         naiveBranchPoint(cNew, intNew, s.problem.bnbConstraints)

\* variant of branch: the second child's bound is -floor(v), so the value
\* floor(v) is admitted by both children
branchOverlapping(s) ==
  LET branchOn == BranchOn(s)
      currentCoeff == s.x[branchOn + 1]
      n == Len(cNew)
      p1 == getChild(s.problem, n, branchOn, 1, Floor(currentCoeff))
      p2 == getChild(s.problem, n, branchOn, -1, -Floor(currentCoeff))
  IN << [p1 EXCEPT !.id = p1.id + 1], [p2 EXCEPT !.id = p2.id + 2] >>

\* solution.branch: the two children, ids already bumped by 1 and 2
branch(s) ==
  LET branchOn == BranchOn(s)
      currentCoeff == s.x[branchOn + 1]
      n == Len(cNew)
      p1 == getChild(s.problem, n, branchOn, 1, Floor(currentCoeff))
      p2 == getChild(s.problem, n, branchOn, -1, -(Floor(currentCoeff) + Scale))
  IN << [p1 EXCEPT !.id = p1.id + 1], [p2 EXCEPT !.id = p2.id + 2] >>

\* milpProblem.toInitialSubproblem: id 0, no bnb constraints; parent and
\* branchHeuristic are not set by the literal and keep their zero values
toInitialSubproblem(p) ==
  [id |-> 0, parent |-> 0, bnbConstraints |-> <<>>, branchHeuristic |-> 0]

\* -------------------------------------------------------------- tree.go
isAllInteger(k) == k = Trunc(k)

feasibleForIP(constraints, solution) ==
  \A i \in 1..Len(solution) : constraints[i] => isAllInteger(solution[i])

\* the map expectedFailures of the solve entry point
expectedFailures ==
  [e \in {ErrInfeasible, ErrSingular} |->
     IF e = ErrInfeasible THEN SUBPROBLEM_IS_DEGENERATE ELSE SUBPROBLEM_NOT_FEASIBLE]

translateSolverFailure(err) == expectedFailures[err]

\* ---------------------------------------------------------- LP oracle
\* x satisfies every branch-and-bound row of p
SatisfiesBnb(p, x) ==
  \A k \in 1..Len(p.bnbConstraints) :
     Dot(p.bnbConstraints[k].gsharp, x) <= p.bnbConstraints[k].hsharp

\* values of a relaxation's variables when the problem is given with its
\* constraints: every multiple of 1 / Scale from 0 to 2
GridVals == 0..(2 * Scale)

\* G x <= h for the rows of prob (entries of G are -1, 0 or 1, h is in units
\* of 1 / Scale); the vertices of such a region lie on the grid
SatisfiesRows(x) == \A k \in DOMAIN prob.G : Dot(prob.G[k], x) <= prob.h[k]

\* the slack entries convertToEqualities adds to y, one for each row of G
WithSlack(y) == y \o [k \in DOMAIN prob.G |-> prob.h[k] - Dot(prob.G[k], y)]

\* the feasible vectors of the relaxation of p: the grid points that satisfy
\* the rows of prob and the rows added by branching, with their slack
Region(p) ==
  {WithSlack(y) : y \in {v \in [1..Len(prob.c) -> GridVals] :
                            SatisfiesRows(v) /\ SatisfiesBnb(p, WithSlack(v))}}

\* the minimisers of c.x over a non-empty region, as solutions of p.  The
\* objective values and their minimum are bound as set elements, so each is
\* computed once.
Minimisers(p, region) ==
  UNION { UNION { { [problem |-> p, x |-> x, z |-> least, err |-> NoErr] :
                      x \in {y \in region : Dot(cNew, y) = least} } :
                  least \in {z \in values : \A v \in values : z <= v} } :
          values \in { {Dot(cNew, x) : x \in region} } }

\* lp.Simplex on the relaxation of p, exactly: ErrInfeasible for an empty
\* region, else a minimiser of c.x (any of them when several tie).  The
\* vector has an entry for every column of the initial subproblem; the
\* slack of the rows added by branching is cut off by subProblem.solve
\* (lines 188-190).
SimplexOutcomes(p) ==
  UNION { IF region = {}
          THEN {[problem |-> p, x |-> <<>>, z |-> NaN, err |-> ErrInfeasible]}
          ELSE Minimisers(p, region) :
          region \in {Region(p)} }

\* the solutions subProblem.solve may return for p.  For a problem given
\* with its rows G, h: the exact relaxation.  For a problem given by c and
\* its mask alone (standing for every set of constraints): an expected
\* failure of lp.Simplex, or z = c.x for a vector x that respects the rows
\* added by branching; at depth MaxDepth the relaxation is integral (model
\* bound).
SolveOutcomes(p) ==
  IF "G" \in DOMAIN prob
  THEN SimplexOutcomes(p)
  ELSE
  { [problem |-> p, x |-> <<>>, z |-> NaN, err |-> e] : e \in {ErrInfeasible, ErrSingular} }
  \cup
  { [problem |-> p, x |-> x, z |-> Dot(prob.c, x), err |-> NoErr] :
      x \in { y \in [1..Len(prob.c) -> XVals] :
                /\ SatisfiesBnb(p, y)
                /\ (Len(p.bnbConstraints) >= MaxDepth
                      => feasibleForIP(prob.integralityConstraints, y)) } }

\* ------------------------------------------------------------- the engine
\* the zero value solution{}
ZeroSolution == [problem |-> Nil, x |-> <<>>, z |-> 0, err |-> NoErr]

RootProblem == toInitialSubproblem(prob)

\* calls into the instrumentation layer
NewProblemEvent(p) == [op |-> "NewSubProblem", id |-> p.id, parent |-> p.parent]

DecisionEvent(s, d) == [op |-> "ProcessDecision", id |-> s.problem.id, err |-> s.err, decision |-> d]

\* variant of WorseThanIncumbent: no candidate is pruned against the
\* incumbent, so every integer-feasible candidate replaces it
WorseThanIncumbentNever(inc, candidate) == FALSE

\* variant of WorseThanIncumbent: the comparison is strict, so a candidate
\* that ties with the incumbent is not pruned
WorseThanIncumbentStrict(inc, candidate) == inc # Nil /\ inc.z < candidate.z

\* checkSolution lines 209-212 and 223: incumbentZ is +Inf without an
\* incumbent; the candidate is pruned when incumbentZ <= candidate.z
WorseThanIncumbent(inc, candidate) == inc # Nil /\ inc.z <= candidate.z

\* every goroutine at its start: nothing solved, sent, announced or returned
Constructed ==
  /\ ctxDone = FALSE
  /\ mainPc = "start"
  /\ caller = "startSearch"
  /\ initialRelaxationSolution = Nil
  /\ cur = Nil
  /\ pending = <<>>
  /\ incumbent = Nil
  /\ workInProgress = 0
  /\ idCurrent = 0
  /\ toSolveClosed = FALSE
  /\ activeClosed = FALSE
  /\ bmPc = "idle"
  /\ buffer = <<>>
  /\ wPc = [w \in Workers |-> "idle"]
  /\ wProb = [w \in Workers |-> Nil]
  /\ wCand = [w \in Workers |-> Nil]
  /\ sink = <<>>
  /\ returned = Nil
  /\ result = Nil

Init ==
  /\ prob \in Problems
  /\ workers = NumWorkers
  /\ Constructed
  /\ call = Nil
  /\ out = Nil

\* the context is cancelled or its deadline passes; this can happen at any
\* moment before solve has returned
Cancel ==
  /\ ~ctxDone
  /\ mainPc # "done"
  /\ ctxDone' = TRUE
  /\ UNCHANGED <<call, out, workers, prob, initialRelaxationSolution, mainPc, caller, cur, pending, incumbent, workInProgress,
                 idCurrent, toSolveClosed, activeClosed, bmPc, buffer, wPc, wProb,
                 wCand, sink, returned, result>>

\* variant of RootSolve: the root is solved without being announced to the
\* instrumentation first
RootSolveSilent ==
  /\ mainPc = "start"
  /\ \E s \in SolveOutcomes(RootProblem) : initialRelaxationSolution' = s
  /\ mainPc' = "rootSolved"
  /\ UNCHANGED <<call, out, workers, prob, ctxDone, caller, cur, pending, incumbent, workInProgress,
                 idCurrent, toSolveClosed, activeClosed, bmPc, buffer, wPc, wProb,
                 wCand, sink, returned, result>>

\* startSearch lines 68-72: announce the root to the instrumentation and
\* solve the initial relaxation (on the caller's goroutine)
RootSolve ==
  /\ mainPc = "start"
  /\ sink' = Append(sink, NewProblemEvent(RootProblem))
  /\ \E s \in SolveOutcomes(RootProblem) : initialRelaxationSolution' = s
  /\ mainPc' = "rootSolved"
  /\ UNCHANGED <<call, out, workers, prob, ctxDone, caller, cur, pending, incumbent, workInProgress,
                 idCurrent, toSolveClosed, activeClosed, bmPc, buffer, wPc, wProb,
                 wCand, returned, result>>

\* variant of StartSearch: the goroutines are started before the root
\* solution is looked at
StartSearchEagerWorkers ==
  /\ mainPc = "rootSolved"
  /\ bmPc' = "run"
  /\ wPc' = [w \in Workers |-> IF w <= workers THEN "recv" ELSE "idle"]
  /\ IF initialRelaxationSolution.err # NoErr
     THEN /\ initialRelaxationSolution' =
               IF initialRelaxationSolution.err = ErrInfeasible
               THEN [initialRelaxationSolution EXCEPT !.err = INITIAL_RELAXATION_NOT_FEASIBLE]
               ELSE initialRelaxationSolution
          /\ returned' = initialRelaxationSolution'
          /\ mainPc' = "returned"
          /\ UNCHANGED cur
     ELSE IF feasibleForIP(intNew, initialRelaxationSolution.x)
     THEN /\ returned' = initialRelaxationSolution
          /\ mainPc' = "returned"
          /\ UNCHANGED <<initialRelaxationSolution, cur>>
     ELSE /\ cur' = initialRelaxationSolution
          /\ initialRelaxationSolution' = Nil
          /\ mainPc' = "check"
          /\ UNCHANGED returned
  /\ caller' = "startSearch"
  /\ UNCHANGED <<call, out, workers, prob, ctxDone, pending, incumbent, workInProgress, idCurrent,
                 toSolveClosed, activeClosed, buffer, wProb, wCand, sink, result>>

\* variant of StartSearch: the shortcut for an integer-feasible root
\* relaxation is missing, the root solution goes through checkSolution
StartSearchNoShortcut ==
  /\ mainPc = "rootSolved"
  /\ IF initialRelaxationSolution.err # NoErr
     THEN /\ initialRelaxationSolution' =
               IF initialRelaxationSolution.err = ErrInfeasible
               THEN [initialRelaxationSolution EXCEPT !.err = INITIAL_RELAXATION_NOT_FEASIBLE]
               ELSE initialRelaxationSolution
          /\ returned' = initialRelaxationSolution'
          /\ mainPc' = "returned"
          /\ UNCHANGED <<cur, bmPc, wPc>>
     ELSE /\ bmPc' = "run"
          /\ wPc' = [w \in Workers |-> IF w <= workers THEN "recv" ELSE "idle"]
          /\ cur' = initialRelaxationSolution
          /\ initialRelaxationSolution' = Nil
          /\ mainPc' = "check"
          /\ UNCHANGED returned
  /\ caller' = "startSearch"
  /\ UNCHANGED <<call, out, workers, prob, ctxDone, pending, incumbent, workInProgress, idCurrent,
                 toSolveClosed, activeClosed, buffer, wProb, wCand, sink, result>>

\* startSearch lines 74-98: return early on a failure or on an
\* integer-feasible relaxation; otherwise start the buffer manager and the
\* workers and call checkSolution on the root solution
StartSearch ==
  /\ mainPc = "rootSolved"
  /\ IF initialRelaxationSolution.err # NoErr
     THEN /\ initialRelaxationSolution' =
               IF initialRelaxationSolution.err = ErrInfeasible
               THEN [initialRelaxationSolution EXCEPT !.err = INITIAL_RELAXATION_NOT_FEASIBLE]
               ELSE initialRelaxationSolution
          /\ returned' = initialRelaxationSolution'
          /\ mainPc' = "returned"
          /\ UNCHANGED <<cur, bmPc, wPc>>
     ELSE IF feasibleForIP(intNew, initialRelaxationSolution.x)
     THEN /\ returned' = initialRelaxationSolution
          /\ mainPc' = "returned"
          /\ UNCHANGED <<initialRelaxationSolution, cur, bmPc, wPc>>
     ELSE /\ bmPc' = "run"
          /\ wPc' = [w \in Workers |-> IF w <= workers THEN "recv" ELSE "idle"]
          /\ cur' = initialRelaxationSolution
          /\ initialRelaxationSolution' = Nil
          /\ mainPc' = "check"
          /\ UNCHANGED returned
  /\ caller' = "startSearch"
  /\ UNCHANGED <<call, out, workers, prob, ctxDone, pending, incumbent, workInProgress, idCurrent,
                 toSolveClosed, activeClosed, buffer, wProb, wCand, sink, result>>

\* variant of AfterCheck: workDone is left out of the loop body
AfterCheckNoWorkDone(wip) == wip

\* what follows a finished checkSolution: back in startSearch line 98 the
\* loop is entered; in the loop (line 106) workDone runs first
AfterCheck(wip) == IF caller = "mainWait" THEN wip - 1 ELSE wip

\* variant of CheckSolution: the children keep the ids solution.branch gave
\* them (the parent's id plus 1 and plus 2), the id source is not asked
CheckSolutionBranchIds ==
  /\ mainPc = "check"
  /\ IF cur.err # NoErr
     THEN /\ sink' = Append(sink, DecisionEvent(cur, translateSolverFailure(cur.err)))
          /\ workInProgress' = AfterCheck(workInProgress)
          /\ mainPc' = "loop"
          /\ cur' = Nil
          /\ UNCHANGED <<incumbent, idCurrent, pending>>
     ELSE IF WorseThanIncumbent(incumbent, cur)
     THEN /\ sink' = Append(sink, DecisionEvent(cur, WORSE_THAN_INCUMBENT))
          /\ workInProgress' = AfterCheck(workInProgress)
          /\ mainPc' = "loop"
          /\ cur' = Nil
          /\ UNCHANGED <<incumbent, idCurrent, pending>>
     ELSE IF feasibleForIP(intNew, cur.x)
     THEN /\ incumbent' = cur
          /\ sink' = Append(sink, DecisionEvent(cur, BETTER_THAN_INCUMBENT_FEASIBLE))
          /\ workInProgress' = AfterCheck(workInProgress)
          /\ mainPc' = "loop"
          /\ cur' = Nil
          /\ UNCHANGED <<idCurrent, pending>>
     ELSE LET ch == branch(cur)
              p1 == ch[1]
              p2 == ch[2]
          IN /\ idCurrent' = idCurrent + 2
             /\ pending' = <<p1, p2>>
             /\ workInProgress' = workInProgress + 1
             /\ mainPc' = "send"
             /\ UNCHANGED <<incumbent, sink, cur>>
  /\ UNCHANGED <<call, out, workers, prob, initialRelaxationSolution, ctxDone, caller, toSolveClosed, activeClosed, bmPc, buffer,
                 wPc, wProb, wCand, returned, result>>

\* checkSolution lines 202-258 up to its first blocking send: decide, and
\* either finish (prune or install) or start addNewProblems for the children
CheckSolution ==
  /\ mainPc = "check"
  /\ IF cur.err # NoErr
     THEN /\ sink' = Append(sink, DecisionEvent(cur, translateSolverFailure(cur.err)))
          /\ workInProgress' = AfterCheck(workInProgress)
          /\ mainPc' = "loop"
          /\ cur' = Nil
          /\ UNCHANGED <<incumbent, idCurrent, pending>>
     ELSE IF WorseThanIncumbent(incumbent, cur)
     THEN /\ sink' = Append(sink, DecisionEvent(cur, WORSE_THAN_INCUMBENT))
          /\ workInProgress' = AfterCheck(workInProgress)
          /\ mainPc' = "loop"
          /\ cur' = Nil
          /\ UNCHANGED <<incumbent, idCurrent, pending>>
     ELSE IF feasibleForIP(intNew, cur.x)
     THEN /\ incumbent' = cur
          /\ sink' = Append(sink, DecisionEvent(cur, BETTER_THAN_INCUMBENT_FEASIBLE))
          /\ workInProgress' = AfterCheck(workInProgress)
          /\ mainPc' = "loop"
          /\ cur' = Nil
          /\ UNCHANGED <<idCurrent, pending>>
     ELSE LET ch == branch(cur)
              p1 == [ch[1] EXCEPT !.id = idCurrent + 1]
              p2 == [ch[2] EXCEPT !.id = idCurrent + 2]
          IN /\ idCurrent' = idCurrent + 2
             /\ pending' = <<p1, p2>>
             /\ workInProgress' = workInProgress + 1
             /\ mainPc' = "send"
             /\ UNCHANGED <<incumbent, sink, cur>>
  /\ UNCHANGED <<call, out, workers, prob, initialRelaxationSolution, ctxDone, caller, toSolveClosed, activeClosed, bmPc, buffer,
                 wPc, wProb, wCand, returned, result>>

\* variant of SendToSolve: no buffer between the caller and the workers, a
\* subproblem is handed over only when a worker is ready to take it
SendToSolveUnbuffered ==
  /\ mainPc = "send"
  /\ bmPc = "run"
  /\ \E w \in Workers : wPc[w] = "recv"
  /\ buffer' = Append(buffer, Head(pending))
  /\ mainPc' = "announce"
  /\ UNCHANGED <<call, out, workers, prob, initialRelaxationSolution, ctxDone, caller, cur, pending, incumbent, workInProgress,
                 idCurrent, toSolveClosed, activeClosed, bmPc, wPc, wProb, wCand,
                 sink, returned, result>>

\* addNewProblems line 129 meeting bufferManager lines 159-164: the
\* unbuffered send on toSolve completes when the buffer manager receives
SendToSolve ==
  /\ mainPc = "send"
  /\ bmPc = "run"
  /\ buffer' = Append(buffer, Head(pending))
  /\ mainPc' = "announce"
  /\ UNCHANGED <<call, out, workers, prob, initialRelaxationSolution, ctxDone, caller, cur, pending, incumbent, workInProgress,
                 idCurrent, toSolveClosed, activeClosed, bmPc, wPc, wProb, wCand,
                 sink, returned, result>>

\* variant of Announce: the children are not passed to the instrumentation
AnnounceSilent ==
  /\ mainPc = "announce"
  /\ pending' = Tail(pending)
  /\ IF Tail(pending) # <<>>
     THEN /\ workInProgress' = workInProgress + 1
          /\ mainPc' = "send"
          /\ UNCHANGED <<cur, sink>>
     ELSE /\ sink' = Append(sink, DecisionEvent(cur, BETTER_THAN_INCUMBENT_BRANCHING))
          /\ workInProgress' = AfterCheck(workInProgress)
          /\ mainPc' = "loop"
          /\ cur' = Nil
  /\ UNCHANGED <<call, out, workers, prob, initialRelaxationSolution, ctxDone, caller, incumbent,
                 idCurrent, toSolveClosed, activeClosed, bmPc, buffer, wPc, wProb,
                 wCand, returned, result>>

\* addNewProblems line 132 after the send, then either the next iteration
\* (workAdded, blocking send) or the end of checkSolution (line 256)
Announce ==
  /\ mainPc = "announce"
  /\ pending' = Tail(pending)
  /\ IF Tail(pending) # <<>>
     THEN /\ sink' = Append(sink, NewProblemEvent(Head(pending)))
          /\ workInProgress' = workInProgress + 1
          /\ mainPc' = "send"
          /\ UNCHANGED cur
     ELSE /\ sink' = Append(Append(sink, NewProblemEvent(Head(pending))),
                            DecisionEvent(cur, BETTER_THAN_INCUMBENT_BRANCHING))
          /\ workInProgress' = AfterCheck(workInProgress)
          /\ mainPc' = "loop"
          /\ cur' = Nil
  /\ UNCHANGED <<call, out, workers, prob, initialRelaxationSolution, ctxDone, caller, incumbent, idCurrent, toSolveClosed,
                 activeClosed, bmPc, buffer, wPc, wProb, wCand, returned, result>>

\* mainWait, case candidate := <-p.candidates, meeting postCandidate of
\* worker w (line 121)
LoopRecv(w) ==
  /\ mainPc = "loop"
  /\ workInProgress > 0
  /\ wPc[w] = "post"
  /\ cur' = wCand[w]
  /\ caller' = "mainWait"
  /\ mainPc' = "check"
  /\ wPc' = [wPc EXCEPT ![w] = "recv"]
  /\ wCand' = [wCand EXCEPT ![w] = Nil]
  /\ UNCHANGED <<call, out, workers, prob, initialRelaxationSolution, ctxDone, pending, incumbent, workInProgress, idCurrent,
                 toSolveClosed, activeClosed, bmPc, buffer, wProb, sink, returned,
                 result>>

\* lines 112-116: close(p.toSolve) and return p.incumbent
CloseAndReturn ==
  /\ toSolveClosed' = TRUE
  /\ returned' = incumbent
  /\ mainPc' = "returned"
  /\ UNCHANGED <<call, out, workers, prob, initialRelaxationSolution, ctxDone, caller, cur, pending, incumbent, workInProgress,
                 idCurrent, activeClosed, bmPc, buffer, wPc, wProb, wCand, sink,
                 result>>

\* variant of LoopCancel: an unlabelled break leaves only the select, and
\* the loop goes round again
LoopCancelUnlabelled ==
  /\ mainPc = "loop"
  /\ workInProgress > 0
  /\ ctxDone
  /\ UNCHANGED vars

\* mainWait, case <-ctx.Done(): break out of the loop
LoopCancel ==
  /\ mainPc = "loop"
  /\ workInProgress > 0
  /\ ctxDone
  /\ CloseAndReturn

\* the loop condition fails: no work in progress
LoopDone ==
  /\ mainPc = "loop"
  /\ workInProgress <= 0
  /\ CloseAndReturn

\* variant of SolveResult: the nil check comes before the ctx.Err() check
SolveResultNilFirst(ret, timedOut) ==
  IF ret = Nil
  THEN [sol |-> ZeroSolution, err |-> NO_INTEGER_FEASIBLE_SOLUTION]
  ELSE IF timedOut
  THEN [sol |-> ret, err |-> Cancelled]
  ELSE IF ret.err # NoErr
  THEN [sol |-> ZeroSolution, err |-> ret.err]
  ELSE [sol |-> [ret EXCEPT !.x = SubSeq(ret.x, 1, Len(prob.c))], err |-> NoErr]

\* variant of SolveResult: a nil incumbent is returned as the zero solution
\* with no error
SolveResultNilOk(ret, timedOut) ==
  IF timedOut
  THEN [sol |-> IF ret # Nil THEN ret ELSE ZeroSolution, err |-> Cancelled]
  ELSE IF ret = Nil
  THEN [sol |-> ZeroSolution, err |-> NoErr]
  ELSE IF ret.err # NoErr
  THEN [sol |-> ZeroSolution, err |-> ret.err]
  ELSE [sol |-> [ret EXCEPT !.x = SubSeq(ret.x, 1, Len(prob.c))], err |-> NoErr]

\* milpProblem.solve lines 98-120: what solve returns, given the pointer
\* startSearch returned and whether ctx.Err() is non-nil
SolveResult(ret, timedOut) ==
  IF timedOut
  THEN [sol |-> IF ret # Nil THEN ret ELSE ZeroSolution, err |-> Cancelled]
  ELSE IF ret = Nil
  THEN [sol |-> ZeroSolution, err |-> NO_INTEGER_FEASIBLE_SOLUTION]
  ELSE IF ret.err # NoErr
  THEN [sol |-> ZeroSolution, err |-> ret.err]
  ELSE [sol |-> [ret EXCEPT !.x = SubSeq(ret.x, 1, Len(prob.c))], err |-> NoErr]

\* milpProblem.solve after startSearch has returned
SolveReturn ==
  /\ mainPc = "returned"
  /\ result' = SolveResult(returned, ctxDone)
  /\ mainPc' = "done"
  /\ UNCHANGED <<call, out, workers, prob, initialRelaxationSolution, ctxDone, caller, cur, pending,
                 incumbent, workInProgress, idCurrent, toSolveClosed, activeClosed,
                 bmPc, buffer, wPc, wProb, wCand, sink, returned>>

\* variant of BmSend: the newest buffered job is handed over instead of
\* buffer[0]
BmSendLifo(w) ==
  /\ bmPc = "run"
  /\ Len(buffer) > 0
  /\ wPc[w] = "recv"
  /\ wProb' = [wProb EXCEPT ![w] = buffer[Len(buffer)]]
  /\ wPc' = [wPc EXCEPT ![w] = "solve"]
  /\ buffer' = SubSeq(buffer, 1, Len(buffer) - 1)
  /\ UNCHANGED <<call, out, workers, prob, initialRelaxationSolution, ctxDone, mainPc, caller, cur, pending, incumbent,
                 workInProgress, idCurrent, toSolveClosed, activeClosed, bmPc,
                 wCand, sink, returned, result>>

\* bufferManager line 168 meeting the range over p.active of worker w
\* (line 192): buffer[0] is handed over and popped
BmSend(w) ==
  /\ bmPc = "run"
  /\ Len(buffer) > 0
  /\ wPc[w] = "recv"
  /\ wProb' = [wProb EXCEPT ![w] = Head(buffer)]
  /\ wPc' = [wPc EXCEPT ![w] = "solve"]
  /\ buffer' = Tail(buffer)
  /\ UNCHANGED <<call, out, workers, prob, initialRelaxationSolution, ctxDone, mainPc, caller, cur, pending, incumbent,
                 workInProgress, idCurrent, toSolveClosed, activeClosed, bmPc,
                 wCand, sink, returned, result>>

\* bufferManager lines 159-163 and 188: toSolve is closed, leave the loop
\* and close(p.active)
BmClosed ==
  /\ bmPc = "run"
  /\ toSolveClosed
  /\ activeClosed' = TRUE
  /\ bmPc' = "done"
  /\ UNCHANGED <<call, out, workers, prob, initialRelaxationSolution, ctxDone, mainPc, caller, cur, pending, incumbent,
                 workInProgress, idCurrent, toSolveClosed, buffer, wPc, wProb,
                 wCand, sink, returned, result>>

\* solveWorker line 194: prob.solve()
WorkerSolve(w) ==
  /\ wPc[w] = "solve"
  /\ \E s \in SolveOutcomes(wProb[w]) : wCand' = [wCand EXCEPT ![w] = s]
  /\ wProb' = [wProb EXCEPT ![w] = Nil]
  /\ wPc' = [wPc EXCEPT ![w] = "post"]
  /\ UNCHANGED <<call, out, workers, prob, initialRelaxationSolution, ctxDone, mainPc, caller, cur, pending, incumbent,
                 workInProgress, idCurrent, toSolveClosed, activeClosed, bmPc,
                 buffer, sink, returned, result>>

\* solveWorker line 192: the range ends when p.active is closed
WorkerExit(w) ==
  /\ wPc[w] = "recv"
  /\ activeClosed
  /\ wPc' = [wPc EXCEPT ![w] = "done"]
  /\ UNCHANGED <<call, out, workers, prob, initialRelaxationSolution, ctxDone, mainPc, caller, cur, pending, incumbent,
                 workInProgress, idCurrent, toSolveClosed, activeClosed, bmPc,
                 buffer, wProb, wCand, sink, returned, result>>

Next ==
  \/ Cancel
  \/ RootSolve
  \/ StartSearch
  \/ CheckSolution
  \/ SendToSolve
  \/ Announce
  \/ \E w \in Workers : LoopRecv(w)
  \/ LoopCancel
  \/ LoopDone
  \/ SolveReturn
  \/ \E w \in Workers : BmSend(w)
  \/ BmClosed
  \/ \E w \in Workers : WorkerSolve(w)
  \/ \E w \in Workers : WorkerExit(w)

Spec == Init /\ [][Next]_vars

\* Scheduling: every goroutine that can take a step eventually takes one
\* (weak fairness); a select with several ready cases picks one uniformly at
\* random, so a case that is ready again and again is eventually taken
\* (strong fairness on the ctx.Done() case of mainWait).
FairSpec ==
  /\ Spec
  /\ WF_vars(RootSolve) /\ WF_vars(StartSearch) /\ WF_vars(CheckSolution) /\ WF_vars(SendToSolve)
  /\ WF_vars(Announce) /\ WF_vars(LoopDone) /\ WF_vars(SolveReturn)
  /\ WF_vars(\E w \in Workers : LoopRecv(w))
  /\ SF_vars(LoopCancel)
  /\ WF_vars(BmClosed)
  /\ \A w \in Workers : WF_vars(BmSend(w)) /\ WF_vars(WorkerSolve(w)) /\ WF_vars(WorkerExit(w))

\* With no assumption on how long an LP solve takes: only the caller's
\* goroutine (once the root is solved) and the buffer manager are scheduled
\* fairly; the workers may stay in lp.Simplex for ever.
CancelSpec ==
  /\ Spec
  /\ WF_vars(StartSearch) /\ WF_vars(CheckSolution) /\ WF_vars(SendToSolve)
  /\ WF_vars(Announce) /\ WF_vars(LoopDone) /\ WF_vars(SolveReturn)
  /\ SF_vars(LoopCancel)

\* ============================================================= properties
\* indices of the sink's ProcessDecision / NewSubProblem calls
Decisions == {i \in DOMAIN sink : sink[i].op = "ProcessDecision"}

Announced(id) == \E j \in DOMAIN sink : sink[j].op = "NewSubProblem" /\ sink[j].id = id

\* the loop mainWait has been left, and how
LoopEnded == toSolveClosed

StoppedByCancel == toSolveClosed /\ workInProgress > 0

NothingStarted ==
  /\ bmPc = "idle"
  /\ \A w \in Workers : wPc[w] = "idle"
  /\ buffer = <<>> /\ pending = <<>>
  /\ workInProgress = 0 /\ idCurrent = 0
  /\ incumbent = Nil
  /\ sink = <<NewProblemEvent(RootProblem)>>

\* C1: every step that changes the incumbent installs an error-free solution
\* whose z is strictly below the z of the incumbent it replaces
C1_IncumbentStrictlyDecreases ==
  [][incumbent' # incumbent =>
       /\ incumbent' # Nil
       /\ incumbent'.err = NoErr
       /\ (incumbent # Nil => incumbent'.z < incumbent.z)]_vars

\* C1 witness: the incumbent has been replaced (two installations)
C1_Witness ==
  Cardinality({i \in Decisions : sink[i].decision = BETTER_THAN_INCUMBENT_FEASIBLE}) >= 2

\* C2: a pruned candidate's decision names its own LP failure: Infeasible
\* gives "no feasible solution", Singular gives "degenerate (singular) matrix"
C2_FailureNamedCorrectly ==
  \A i \in Decisions :
     /\ (sink[i].err = ErrInfeasible => sink[i].decision = SUBPROBLEM_NOT_FEASIBLE)
     /\ (sink[i].err = ErrSingular => sink[i].decision = SUBPROBLEM_IS_DEGENERATE)

\* C3: once the decision loop has ended, the buffer manager terminates and
\* every worker returns
C3_WorkersReturn ==
  LoopEnded ~> (bmPc = "done" /\ \A w \in Workers : wPc[w] = "done")

\* C4: once the search is running (the root relaxation is solved), a fired
\* cancellation signal leads to startSearch returning, whatever the workers do
C4_CancelReturns ==
  (ctxDone /\ mainPc \notin {"start", "rootSolved"}) ~> (mainPc \in {"returned", "done"})

\* C4 witness: startSearch has returned through the ctx.Done() case while
\* work was still buffered and a worker was still solving
C4_Witness ==
  /\ mainPc = "returned" /\ StoppedByCancel
  /\ buffer # <<>>
  /\ \E w \in Workers : wPc[w] = "solve"

\* C5: a search stopped by the cancellation signal makes solve return the
\* cancellation error with the incumbent installed last, or with the zero
\* solution when none was installed
C5_CancelReturnsIncumbent ==
  (mainPc = "done" /\ StoppedByCancel) =>
     /\ result.err = Cancelled
     /\ result.sol = IF incumbent # Nil THEN incumbent ELSE ZeroSolution

\* C5 witness: solve returned after a cancelled search that had an incumbent
C5_Witness == mainPc = "done" /\ StoppedByCancel /\ incumbent # Nil

\* C6: a search that ran to the end (no work in progress), was never
\* cancelled and installed no incumbent makes solve return
\* NoIntegerFeasibleSolution and the zero solution
C6_NoIntegerFeasible ==
  (mainPc = "done" /\ LoopEnded /\ ~StoppedByCancel /\ ~ctxDone /\ incumbent = Nil) =>
     result = [sol |-> ZeroSolution, err |-> NO_INTEGER_FEASIBLE_SOLUTION]

\* C6 witness: such a search has returned
C6_Witness ==
  mainPc = "done" /\ LoopEnded /\ ~StoppedByCancel /\ ~ctxDone /\ incumbent = Nil

\* the root relaxation came back infeasible (before or after startSearch
\* renamed the error)
RootInfeasible ==
  /\ initialRelaxationSolution # Nil
  /\ initialRelaxationSolution.err \in {ErrInfeasible, INITIAL_RELAXATION_NOT_FEASIBLE}

\* C7: with an infeasible root relaxation no goroutine is ever started and
\* nothing is ever submitted, and startSearch returns the error
\* InitialRelaxationInfeasible (which solve passes on unless the context has
\* expired by then)
C7_RootInfeasible ==
  RootInfeasible =>
     /\ NothingStarted
     /\ mainPc \in {"rootSolved", "returned", "done"}
     /\ (mainPc \in {"returned", "done"} =>
           returned # Nil /\ returned.err = INITIAL_RELAXATION_NOT_FEASIBLE)
     /\ (mainPc = "done" /\ ~ctxDone =>
           result = [sol |-> ZeroSolution, err |-> INITIAL_RELAXATION_NOT_FEASIBLE])

\* C7 witness: solve has returned for an infeasible root relaxation
C7_Witness == RootInfeasible /\ mainPc = "done" /\ ~ctxDone

\* the root relaxation is solved and satisfies every integrality constraint
RootIntegerFeasible ==
  /\ initialRelaxationSolution # Nil
  /\ initialRelaxationSolution.err = NoErr
  /\ feasibleForIP(intNew, initialRelaxationSolution.x)

\* C8: with an integer-feasible root relaxation no goroutine is ever
\* started, nothing is submitted or branched, and what is returned is the
\* root relaxation's solution, for every configured heuristic; a root
\* solution that does reach checkSolution (after the goroutines were
\* started) is therefore never integer-feasible
C8_RootFeasibleReturned ==
  /\ RootIntegerFeasible =>
       /\ NothingStarted
       /\ mainPc \in {"rootSolved", "returned", "done"}
       /\ (mainPc \in {"returned", "done"} => returned = initialRelaxationSolution)
       /\ (mainPc = "done" /\ ~ctxDone =>
             result = [sol |-> initialRelaxationSolution, err |-> NoErr])
  /\ (cur # Nil /\ cur.problem.id = 0) =>
       ~feasibleForIP(intNew, cur.x)

\* C8 witness: solve has returned the root solution of a problem that has
\* integrality constraints and a heuristic other than the default
C8_Witness ==
  /\ RootIntegerFeasible /\ mainPc = "done" /\ ~ctxDone
  /\ prob.branchingHeuristic # BRANCH_MAXFUN
  /\ \E i \in DOMAIN prob.integralityConstraints : prob.integralityConstraints[i]

\* C9: every ProcessDecision call the sink receives is preceded by the
\* NewSubProblem call for the subproblem of its solution
C9_NewBeforeDecision ==
  \A i \in Decisions :
     \E j \in 1..(i - 1) : sink[j].op = "NewSubProblem" /\ sink[j].id = sink[i].id

\* C9 witness: a decision on a child's candidate has reached the sink
C9_Witness == \E i \in Decisions : sink[i].id # 0

\* C10: a subproblem that a worker has received (is solving, or has solved
\* and is posting) has already been announced to the sink
C10_AnnouncedBeforeWorker ==
  \A w \in Workers :
     /\ (wPc[w] = "solve" => Announced(wProb[w].id))
     /\ (wPc[w] = "post" => Announced(wCand[w].problem.id))

\* ids of the subproblems that are still on their way: waiting to be sent,
\* buffered, held by a worker, posted but not received, or being checked
InFlight ==
  {pending[k].id : k \in DOMAIN pending}
  \cup {buffer[k].id : k \in DOMAIN buffer}
  \cup {wProb[w].id : w \in {v \in Workers : wProb[v] # Nil}}
  \cup {wCand[w].problem.id : w \in {v \in Workers : wCand[v] # Nil}}
  \cup (IF cur # Nil THEN {cur.problem.id} ELSE {})

\* the candidates the engine has finished evaluating: the root relaxation's
\* solution once startSearch is past it, and every candidate received from
\* a worker whose checkSolution has returned
Evaluated ==
  (IF mainPc \in {"loop", "returned", "done"} THEN {0} ELSE {})
  \cup {id \in 1..idCurrent : id \notin InFlight}

DecisionsFor(id) == {i \in Decisions : sink[i].id = id}

\* C11: ProcessDecision has been called exactly once for every candidate
\* the engine has evaluated (the root relaxation's solution included) and
\* never more than once for any candidate
C11_DecisionOncePerCandidate ==
  /\ \A id \in 0..idCurrent : Cardinality(DecisionsFor(id)) <= 1
  /\ \A id \in Evaluated : Cardinality(DecisionsFor(id)) = 1

\* ================================================ branching on its own
\* The heuristics of branching.go and solution.branch applied to one
\* candidate at a time, for every candidate over a small grid of values.
NumVars == 2

\* entries of c and x: a negative value with a fraction beyond one half, an
\* integer, and a value halfway between two integers
Vals == {-(2 * Scale - 1), Scale, Scale + Scale \div 2}

Heuristics == {BRANCH_MAXFUN, BRANCH_MOST_INFEASIBLE, BRANCH_NAIVE}

\* the bnbConstraints of the candidate's problem: none (the root) or one
\* earlier branch on variable j
BnbLists ==
  {<<>>} \cup
  { <<[branchedVariable |-> j, hsharp |-> 2 * Scale, gsharp |-> UnitRow(NumVars, j, 1)]>> :
      j \in 0..(NumVars - 1) }

engine == <<prob, workers, ctxDone, mainPc, caller, initialRelaxationSolution, cur, pending, incumbent,
            workInProgress, idCurrent, toSolveClosed, activeClosed, bmPc, buffer, wPc, wProb,
            wCand, sink, returned, result>>

InitBranching ==
  /\ prob \in [c : [1..NumVars -> Vals],
               integralityConstraints : [1..NumVars -> BOOLEAN],
               branchingHeuristic : {BRANCH_MAXFUN}]
  /\ workers = 1
  /\ Constructed
  /\ \E x \in [1..NumVars -> Vals], b \in BnbLists, h \in Heuristics :
       call = [s |-> [problem |-> [id |-> Len(b), parent |-> 0, bnbConstraints |-> b,
                                   branchHeuristic |-> h],
                      x |-> x, z |-> Dot(prob.c, x), err |-> NoErr]]
  /\ out = Nil

CallMaxFun ==
  /\ call # Nil /\ out = Nil
  /\ out' = [fn |-> "maxFunBranchPoint",
             j |-> maxFunBranchPoint(prob.c, prob.integralityConstraints)]
  /\ UNCHANGED <<engine, call>>

CallMostInfeasible ==
  /\ call # Nil /\ out = Nil
  /\ out' = [fn |-> "mostInfeasibleBranchPoint",
             j |-> mostInfeasibleBranchPoint(prob.c, prob.integralityConstraints)]
  /\ UNCHANGED <<engine, call>>

\* j = -1 stands for a call that never returns
CallNaive ==
  /\ call # Nil /\ out = Nil
  /\ out' = [fn |-> "naiveBranchPoint",
             j |-> naiveBranchPoint(prob.c, prob.integralityConstraints,
                                    call.s.problem.bnbConstraints)]
  /\ UNCHANGED <<engine, call>>

\* checkSolution line 250 branches only a candidate that is not feasible
\* for the integrality constraints
CallBranch ==
  /\ call # Nil /\ out = Nil
  /\ ~feasibleForIP(prob.integralityConstraints, call.s.x)
  /\ out' = [fn |-> "branch", children |-> branch(call.s)]
  /\ UNCHANGED <<engine, call>>

NextBranching == CallMaxFun \/ CallMostInfeasible \/ CallNaive \/ CallBranch

BranchingSpec == InitBranching /\ [][NextBranching]_vars

Branched == out # Nil /\ out.fn = "branch"

\* the row a child got from the branch that made it
AddedRow(p) == p.bnbConstraints[Len(p.bnbConstraints)]

\* vectors whose entries are all integers
IntegerPoints == [1..NumVars -> {k * Scale : k \in -3..3}]

\* C13: branching a candidate on variable j with relaxation value v gives
\* exactly two children; child 1 adds the row with +1 at column j and
\* right-hand side floor(v), child 2 the row with -1 at column j and
\* right-hand side -(floor(v)+1); every integer value of x_j satisfies the
\* added row of exactly one child
C13_BranchSplitsIntegers ==
  Branched =>
    LET parent == call.s.problem
        p1 == out.children[1]
        p2 == out.children[2]
        r1 == AddedRow(p1)
        r2 == AddedRow(p2)
        j == r1.branchedVariable
        v == call.s.x[j + 1]
    IN /\ Len(out.children) = 2
       /\ \A p \in {p1, p2} :
            /\ Len(p.bnbConstraints) = Len(parent.bnbConstraints) + 1
            /\ \A k \in 1..Len(parent.bnbConstraints) :
                 p.bnbConstraints[k] = parent.bnbConstraints[k]
       /\ r2.branchedVariable = j
       /\ \A i \in 1..NumVars :
            /\ r1.gsharp[i] = (IF i = j + 1 THEN 1 ELSE 0)
            /\ r2.gsharp[i] = (IF i = j + 1 THEN -1 ELSE 0)
       /\ r1.hsharp % Scale = 0 /\ r1.hsharp <= v /\ v < r1.hsharp + Scale
       /\ r2.hsharp = -(r1.hsharp + Scale)
       /\ \A y \in IntegerPoints :
            (Dot(r1.gsharp, y) <= r1.hsharp) # (Dot(r2.gsharp, y) <= r2.hsharp)

\* a candidate was branched on a variable whose value is not an integer
C13_Witness ==
  /\ Branched
  /\ call.s.x[AddedRow(out.children[1]).branchedVariable + 1] % Scale # 0
  /\ call.s.problem.bnbConstraints # <<>>

\* the candidate in cur has been branched and its children are being sent
BranchingCur == mainPc \in {"send", "announce"}

\* C14: at every branch of the enumeration tree, at the root and below it,
\* the heuristic that chooses the branching variable is the one configured
\* on the problem (MaxFun, MostInfeasible or Naive)
C14_ConfiguredHeuristicUsed ==
  BranchingCur =>
    /\ cur.problem.branchHeuristic = prob.branchingHeuristic
    /\ \A k \in DOMAIN pending :
         AddedRow(pending[k]).branchedVariable
           = BranchOn([cur EXCEPT !.problem.branchHeuristic = prob.branchingHeuristic])

\* 0-based indices the mask constrains to integers
IntegerConstrained(ic) == {j \in 0..(Len(ic) - 1) : ic[j + 1]}

\* C15: MaxFun returns, among the integer-constrained indices, one with the
\* largest |c_j|, and the highest index among those that share the maximum
C15_MaxFunArgMax ==
  (out # Nil /\ out.fn = "maxFunBranchPoint"
     /\ IntegerConstrained(prob.integralityConstraints) # {}) =>
    /\ out.j \in IntegerConstrained(prob.integralityConstraints)
    /\ \A k \in IntegerConstrained(prob.integralityConstraints) :
         \/ Abs(prob.c[k + 1]) < Abs(prob.c[out.j + 1])
         \/ Abs(prob.c[k + 1]) = Abs(prob.c[out.j + 1]) /\ k <= out.j

\* distance of the fractional part of a non-negative value from one half
\* (in units of 1 / (2 * Scale))
HalfDistance(v) == Abs(Scale - 2 * (v % Scale))

\* C16: when MostInfeasible is the heuristic a branch uses, the branched
\* variable is the integer-constrained j whose relaxation value x_j has the
\* fractional part closest to one half, the highest such j on a tie
C16_MostInfeasibleClosestToHalf ==
  (Branched /\ call.s.problem.branchHeuristic = BRANCH_MOST_INFEASIBLE
     /\ \A i \in 1..NumVars : call.s.x[i] >= 0) =>
    LET j == AddedRow(out.children[1]).branchedVariable
        x == call.s.x
    IN /\ j \in IntegerConstrained(prob.integralityConstraints)
       /\ \A k \in IntegerConstrained(prob.integralityConstraints) :
            \/ HalfDistance(x[j + 1]) < HalfDistance(x[k + 1])
            \/ HalfDistance(x[j + 1]) = HalfDistance(x[k + 1]) /\ k <= j

\* C17: whenever the mask has a true entry, each of MaxFun, MostInfeasible
\* and Naive returns an index j with integrality_mask[j] true, whatever
\* the vector it is given
C17_HeuristicReturnsConstrainedIndex ==
  (out # Nil
     /\ out.fn \in {"maxFunBranchPoint", "mostInfeasibleBranchPoint", "naiveBranchPoint"}
     /\ IntegerConstrained(prob.integralityConstraints) # {}) =>
    out.j \in IntegerConstrained(prob.integralityConstraints)

\* ============================================ the Problem level (api.go)
\* A Problem holds pointers: its Variables and Constraints are objects that
\* the caller and every copy of the Problem struct share.  mem.vars and
\* mem.cons are those objects; a Problem's variables and constraints are
\* sequences of indices into them.
Inf == 1000000

\* product of two values that are both in units of 1 / Scale
Mul(a, b) == (a * b) \div Scale

RECURSIVE Sum(_, _)
Sum(f, S) == IF S = {} THEN 0 ELSE LET k == CHOOSE k \in S : TRUE IN f[k] + Sum(f, S \ {k})

Range(q) == {q[k] : k \in DOMAIN q}

\* ---------------------------------------------------------------- api.go
\* Problem.getVariableIndex: position of the pointer v in p.variables
getVariableIndex(p, v) == CHOOSE i \in DOMAIN p.variables : p.variables[i] = v

\* the row toSolveable builds for a constraint: later expressions on the
\* same variable overwrite earlier ones
RECURSIVE IndexRow(_, _, _, _)
IndexRow(p, exprs, k, row) ==
  IF k > Len(exprs) THEN row
  ELSE IndexRow(p, exprs, k + 1,
                [row EXCEPT ![getVariableIndex(p, exprs[k].variable)] = exprs[k].coef])

\* rows and right-hand sides toSolveable derives from the variable bounds
RECURSIVE BoundRows(_, _, _)
BoundRows(mem, p, i) ==
  IF i > Len(p.variables) THEN <<>>
  ELSE LET v == mem.vars[p.variables[i]]
           n == Len(p.variables)
           up == IF v.upper # Inf
                 THEN <<[row |-> [j \in 1..n |-> IF j = i THEN Scale ELSE 0], rhs |-> v.upper]>>
                 ELSE <<>>
           lo == IF ~(v.lower <= 0)
                 THEN <<[row |-> [j \in 1..n |-> IF j = i THEN -Scale ELSE 0], rhs |-> -v.lower]>>
                 ELSE <<>>
       IN up \o lo \o BoundRows(mem, p, i + 1)

\* Problem.toSolveable: A and G are sequences of rows (<<>> for nil)
toSolveable(mem, p) ==
  LET n == Len(p.variables)
      rowOf(k) == IndexRow(p, mem.cons[p.constraints[k]].expressions, 1, [j \in 1..n |-> 0])
      eqs == SelectSeq([k \in 1..Len(p.constraints) |-> k],
                       LAMBDA k : ~mem.cons[p.constraints[k]].inequality)
      ineqs == SelectSeq([k \in 1..Len(p.constraints) |-> k],
                         LAMBDA k : mem.cons[p.constraints[k]].inequality)
      bounds == BoundRows(mem, p, 1)
  IN [c |-> [i \in 1..n |-> IF p.maximize THEN mem.vars[p.variables[i]].coefficient * (-1)
                                           ELSE mem.vars[p.variables[i]].coefficient],
      A |-> [k \in 1..Len(eqs) |-> rowOf(eqs[k])],
      b |-> [k \in 1..Len(eqs) |-> mem.cons[p.constraints[eqs[k]]].rhs],
      G |-> [k \in 1..Len(ineqs) |-> rowOf(ineqs[k])] \o [k \in 1..Len(bounds) |-> bounds[k].row],
      h |-> [k \in 1..Len(ineqs) |-> mem.cons[p.constraints[ineqs[k]]].rhs]
              \o [k \in 1..Len(bounds) |-> bounds[k].rhs],
      integralityConstraints |-> [i \in 1..n |-> mem.vars[p.variables[i]].integer],
      branchingHeuristic |-> p.branchingHeuristic]

\* x is feasible for the milpProblem: non-negative, A x = b, G x <= h, and
\* integer where the mask asks for it
FeasibleFor(milp, x) ==
  /\ \A i \in DOMAIN x : x[i] >= 0 /\ (milp.integralityConstraints[i] => isAllInteger(x[i]))
  /\ \A k \in DOMAIN milp.A : Dot(milp.A[k], x) = milp.b[k] * Scale
  /\ \A k \in DOMAIN milp.G : Dot(milp.G[k], x) <= milp.h[k] * Scale

\* values the solver may report for one variable
SolutionVals == {0, Scale}

\* what milpProblem.solve hands to Problem.Solve: a feasible x with the
\* objective z = c.x of the problem it was given, or a failure
MilpSolveOutcomes(milp) ==
  LET xs == {x \in [1..Len(milp.c) -> SolutionVals] : FeasibleFor(milp, x)}
  IN IF xs = {}
     THEN {[x |-> <<>>, z |-> 0, err |-> INITIAL_RELAXATION_NOT_FEASIBLE]}
     ELSE {[x |-> x, z |-> Dot(milp.c, x), err |-> NoErr] : x \in xs}

\* Problem.Solve lines 295-327 for one outcome soln of milp.solve
Solve(mem, p, soln) ==
  IF soln.err # NoErr
  THEN [solution |-> Nil, err |-> soln.err]
  ELSE [solution |->
          [Objective |-> soln.z,
           Coefficients |-> [i \in 1..Len(soln.x) |->
                               [Name |-> mem.vars[p.variables[i]].name, Coef |-> soln.x[i]]]],
        err |-> NoErr]

\* ------------------------------------------------------------ presolve.go
\* The presolve functions take a Problem by value and return one; st is what
\* they work on: the shared objects mem, the Problem struct p they were
\* handed (and hand back), and the preProcessor's list of undoers.
filterZeroExpressions(exprs) == SelectSeq(exprs, LAMBDA e : e.coef # 0)

\* sanitizeProblem: assigns to c.expressions through the shared pointers
sanitizeProblem(st) ==
  [st EXCEPT !.mem.cons =
     [k \in DOMAIN st.mem.cons |->
        IF k \in Range(st.p.constraints)
        THEN [st.mem.cons[k] EXCEPT !.expressions = filterZeroExpressions(@)]
        ELSE st.mem.cons[k]]]

isFixed(variable) == variable.lower = variable.upper

\* what filterFixedVars takes off a constraint's rhs for its expressions on
\* fixed variables (line 155)
RECURSIVE FixedShare(_, _, _)
FixedShare(vs, exprs, k) ==
  IF k > Len(exprs) THEN 0
  ELSE (IF isFixed(vs[exprs[k].variable])
        THEN Mul(vs[exprs[k].variable].coefficient, vs[exprs[k].variable].lower)
        ELSE 0) + FixedShare(vs, exprs, k + 1)

\* preProcessor.filterFixedVars; the undoer it registers is kept as the map
\* fixedVars it closes over (variable name -> coefficient * lower)
filterFixedVars(st) ==
  LET vs == st.mem.vars
      newVars == SelectSeq(st.p.variables, LAMBDA v : ~isFixed(vs[v]))
      fixed == {v \in Range(st.p.variables) : isFixed(vs[v])}
      fixedVars == [nm \in {vs[v].name : v \in fixed} |->
                      LET v == CHOOSE w \in fixed : vs[w].name = nm
                      IN Mul(vs[v].coefficient, vs[v].lower)]
  IN [mem |-> [vars |-> vs,
               cons |-> [k \in DOMAIN st.mem.cons |->
                           IF k \in Range(st.p.constraints)
                           THEN [st.mem.cons[k] EXCEPT
                                   !.rhs = @ - FixedShare(vs, st.mem.cons[k].expressions, 1),
                                   !.expressions = SelectSeq(@, LAMBDA e : ~isFixed(vs[e.variable]))]
                           ELSE st.mem.cons[k]]],
      p |-> [st.p EXCEPT !.variables = newVars],
      undoers |-> IF fixed # {} THEN Append(st.undoers, fixedVars) ELSE st.undoers]

\* preProcessor.findImplicitlyFixedVars: the variables of a constraint with
\* rhs 0 and no negative coefficient get both bounds set to 0
findImplicitlyFixedVars(st) ==
  LET cons == st.mem.cons
      removable(k) == cons[k].rhs = 0 /\ \A i \in DOMAIN cons[k].expressions :
                                           ~(cons[k].expressions[i].coef < 0)
      positive(k) == {cons[k].expressions[i].variable :
                        i \in {j \in DOMAIN cons[k].expressions : cons[k].expressions[j].coef > 0}}
      implicitZero == UNION {positive(k) : k \in {j \in Range(st.p.constraints) : removable(j)}}
  IN [st EXCEPT !.mem.vars =
        [v \in DOMAIN st.mem.vars |->
           IF v \in implicitZero
           THEN [st.mem.vars[v] EXCEPT !.lower = 0, !.upper = 0]
           ELSE st.mem.vars[v]]]

removeEmptyConstraints(st) ==
  [st EXCEPT !.p.constraints =
     SelectSeq(@, LAMBDA c : Len(st.mem.cons[c].expressions) > 0)]

\* removeDuplicateConstraints, second loop: the pairs (i, j), i # j, of
\* constraints with equal expression sets, visited in the order the first
\* loop appended them; the second of a pair is retained when the first has
\* the larger rhs.  t counts the n * n index pairs.
RECURSIVE RetainFromPairs(_, _, _, _)
RetainFromPairs(st, sets, t, retained) ==
  LET n == Len(st.p.constraints)
      i == (t \div n) + 1
      j == (t % n) + 1
      ci == st.p.constraints[i]
      cj == st.p.constraints[j]
  IN IF t >= n * n THEN retained
     ELSE IF i # j /\ sets[i] = sets[j] /\ st.mem.cons[ci].rhs > st.mem.cons[cj].rhs
          THEN RetainFromPairs(st, sets, t + 1, Append(retained, cj))
          ELSE RetainFromPairs(st, sets, t + 1, retained)

removeDuplicateConstraints(st) ==
  LET n == Len(st.p.constraints)
      sets == [i \in 1..n |->
                 LET exprs == st.mem.cons[st.p.constraints[i]].expressions
                 IN {<<st.mem.vars[exprs[k].variable].name, exprs[k].coef>> : k \in DOMAIN exprs}]
      unique(i) == \A j \in 1..n : j # i => sets[j] # sets[i]
      positions == SelectSeq([i \in 1..n |-> i], unique)
      retained == [k \in 1..Len(positions) |-> st.p.constraints[positions[k]]]
  IN [st EXCEPT !.p.constraints = RetainFromPairs(st, sets, 0, retained)]

\* the loop of preSolve (lines 58-71): one pass of the four operations, then
\* again unless the pass has registered no undoer
RECURSIVE PreSolveLoop(_, _)
PreSolveLoop(preprocessed, previousNUndoers) ==
  LET pass == removeDuplicateConstraints(
                removeEmptyConstraints(
                  findImplicitlyFixedVars(
                    filterFixedVars(preprocessed))))
  IN IF Len(pass.undoers) = previousNUndoers
     THEN pass
     ELSE PreSolveLoop(pass, Len(pass.undoers))

\* preProcessor.preSolve
preSolve(st) == PreSolveLoop(sanitizeProblem(st), 0)

\* one undoer of filterFixedVars (lines 166-175) applied to the raw solution
\* s when none of its variables is in s already: it adds them all
ApplyUndoer(fixedVars, s) ==
  [nm \in DOMAIN s \cup DOMAIN fixedVars |->
     IF nm \in DOMAIN fixedVars THEN fixedVars[nm] ELSE s[nm]]

\* the loop of postSolve over the indices of the undoers in the sequence
\* order, from its k-th element on; applied lists the undoers run so far.
\* An undoer that finds one of its variables in the solution panics.
RECURSIVE ApplyUndoers(_, _, _, _, _)
ApplyUndoers(undoers, order, k, postsolved, applied) ==
  IF k > Len(order)
  THEN [panic |-> FALSE, postsolved |-> postsolved, applied |-> applied]
  ELSE IF DOMAIN undoers[order[k]] \cap DOMAIN postsolved # {}
  THEN [panic |-> TRUE, postsolved |-> postsolved, applied |-> Append(applied, order[k])]
  ELSE ApplyUndoers(undoers, order, k + 1,
                    ApplyUndoer(undoers[order[k]], postsolved), Append(applied, order[k]))

\* the Solution postSolve assembles: every value under its name, and their
\* sum as Objective
Assemble(run) ==
  [panic |-> run.panic, applied |-> run.applied,
   solution |-> IF run.panic THEN Nil
                ELSE [Objective |-> Sum(run.postsolved, DOMAIN run.postsolved),
                      byName |-> run.postsolved]]

\* variant of postSolve: the undoers run in the order they were pushed
postSolveFifo(undoers, s) ==
  Assemble(ApplyUndoers(undoers, [k \in 1..Len(undoers) |-> k], 1, s, <<>>))

\* preProcessor.postSolve: the undoers from the last to the first, then the
\* Solution.  applied records which undoers ran, in the order they ran.
postSolve(undoers, s) ==
  Assemble(ApplyUndoers(undoers, [k \in 1..Len(undoers) |-> Len(undoers) - k + 1], 1, s, <<>>))

\* ----------------------------------------- the Problem level on its own
NumCons == 2

\* coefficient, lower and upper bound of a Variable as SetCoeff, LowerBound
\* and UpperBound can leave them: unbounded above, fixed at 1, or between 0
\* and 2
VariableKinds ==
  { <<Scale, 0, Inf>>, <<2 * Scale, 0, Inf>>, <<2 * Scale, Scale, Scale>>, <<Scale, 0, 2 * Scale>> }

\* the i-th Variable; every second one is integer
Variable(i, kind) ==
  [name |-> i, coefficient |-> kind[1], integer |-> (i % 2 = 0), lower |-> kind[2], upper |-> kind[3]]

\* the expressions AddExpression can leave on a Constraint: none, one
\* variable with coefficient 1, the first variable with coefficient 0, or
\* the first and the last variable with coefficient 1 each
ExpressionLists ==
  {<<>>, <<[coef |-> 0, variable |-> 1]>>,
   <<[coef |-> Scale, variable |-> 1], [coef |-> Scale, variable |-> NumVars]>>}
  \cup {<<[coef |-> Scale, variable |-> j]>> : j \in 1..NumVars}

ConstraintBodies == {[expressions |-> e, rhs |-> r] : e \in ExpressionLists, r \in {0, 2 * Scale}}

\* the k-th Constraint; the first one is an inequality
Constraint(k, body) ==
  [expressions |-> body.expressions, rhs |-> body.rhs, inequality |-> (k = 1)]

InitProblem ==
  /\ prob = Nil
  /\ workers = 1
  /\ Constructed
  /\ \E kinds \in [1..NumVars -> VariableKinds],
        bodies \in [1..NumCons -> ConstraintBodies],
        mx \in BOOLEAN :
       call = [mem |-> [vars |-> [i \in 1..NumVars |-> Variable(i, kinds[i])],
                        cons |-> [k \in 1..NumCons |-> Constraint(k, bodies[k])]],
               p |-> [maximize |-> mx,
                      variables |-> [i \in 1..NumVars |-> i],
                      constraints |-> [k \in 1..NumCons |-> k],
                      branchingHeuristic |-> BRANCH_MAXFUN,
                      workers |-> 1]]
  /\ out = Nil

\* what a presolve function is handed: the caller's Problem and a fresh
\* preProcessor
Handed == [mem |-> call.mem, p |-> call.p, undoers |-> <<>>]

CallToSolveable ==
  /\ call # Nil /\ out = Nil
  /\ out' = [fn |-> "toSolveable", milp |-> toSolveable(call.mem, call.p)]
  /\ UNCHANGED <<engine, call>>

CallSolve ==
  /\ call # Nil /\ out = Nil
  /\ \E soln \in MilpSolveOutcomes(toSolveable(call.mem, call.p)) :
       out' = [fn |-> "Solve", ret |-> Solve(call.mem, call.p, soln)]
  /\ UNCHANGED <<engine, call>>

CallFilterFixedVars ==
  /\ call # Nil /\ out = Nil
  /\ out' = [fn |-> "filterFixedVars", st |-> filterFixedVars(Handed)]
  /\ UNCHANGED <<engine, call>>

CallPreSolve ==
  /\ call # Nil /\ out = Nil
  /\ out' = [fn |-> "preSolve", st |-> preSolve(Handed)]
  /\ UNCHANGED <<engine, call>>

CallRemoveDuplicateConstraints ==
  /\ call # Nil /\ out = Nil
  /\ out' = [fn |-> "removeDuplicateConstraints", st |-> removeDuplicateConstraints(Handed)]
  /\ UNCHANGED <<engine, call>>

\* raw solutions of a presolved problem: a value for the name of every
\* variable that is left, all 0 or all different
RawSolutions(st) ==
  LET names == {st.mem.vars[v].name : v \in Range(st.p.variables)}
  IN {[nm \in names |-> 0], [nm \in names |-> nm * Scale]}

\* preSolve, a solve of the presolved problem, then postSolve with the same
\* preProcessor
CallPostSolve ==
  /\ call # Nil /\ out = Nil
  /\ LET st == preSolve(Handed)
     IN \E raw \in RawSolutions(st) :
          out' = [fn |-> "postSolve", st |-> st, raw |-> raw, ret |-> postSolve(st.undoers, raw)]
  /\ UNCHANGED <<engine, call>>

NextProblem ==
  CallToSolveable \/ CallSolve \/ CallFilterFixedVars \/ CallPreSolve \/ CallPostSolve
  \/ CallRemoveDuplicateConstraints

ProblemSpec == InitProblem /\ [][NextProblem]_vars

Returned(fn) == out # Nil /\ out.fn = fn

\* the user's objective function at the values a Solution reports
UserObjective(solution) ==
  Sum([i \in 1..Len(solution.Coefficients) |->
         call.mem.vars[call.p.variables[i]].coefficient * solution.Coefficients[i].Coef],
      1..Len(solution.Coefficients))

\* C18: for a problem set to Maximize the objective coefficients are negated
\* before solving and the objective handed back is negated again, so the
\* returned objective is the user's objective at the returned values
C18_MaximizeRoundTrip ==
  /\ (Returned("toSolveable") /\ call.p.maximize) =>
       \A i \in 1..NumVars :
          out.milp.c[i] = -call.mem.vars[call.p.variables[i]].coefficient
  /\ (Returned("Solve") /\ call.p.maximize /\ out.ret.err = NoErr) =>
       out.ret.solution.Objective = UserObjective(out.ret.solution)

\* C19: after preSolve(p) the caller's variables (bounds, coefficients) and
\* constraints (expressions, right-hand sides), and their order, are what
\* they were before the call
C19_PreSolveLeavesCallerUnchanged ==
  Returned("preSolve") => out.st.mem = call.mem

\* C20: filterFixedVars removes exactly the variables with lower = upper and
\* keeps the others in order, removes every expression on a removed
\* variable, and lowers the rhs of each constraint by a_ij * lower_j for each
\* such expression, a_ij being the expression's coefficient
C20_FilterFixedVars ==
  Returned("filterFixedVars") =>
    LET before == call.mem
        after == out.st.mem
        gone == {v \in Range(call.p.variables) : before.vars[v].lower = before.vars[v].upper}
    IN /\ out.st.p.variables = SelectSeq(call.p.variables, LAMBDA v : v \notin gone)
       /\ \A k \in Range(call.p.constraints) :
            LET exprs == before.cons[k].expressions
                dropped == {i \in DOMAIN exprs : exprs[i].variable \in gone}
            IN /\ after.cons[k].expressions
                    = SelectSeq(exprs, LAMBDA e : e.variable \notin gone)
               /\ after.cons[k].rhs
                    = before.cons[k].rhs
                      - Sum([i \in DOMAIN exprs |->
                               Mul(exprs[i].coef, before.vars[exprs[i].variable].lower)],
                            dropped)

\* ==================================== searches over exact relaxations
\* Problems given with their constraints, one variable integer constrained
\* (with MaxFun always branching on the last constrained index, a second
\* constrained variable can make the tree endless).  In turn: both children
\* of the root integer feasible with different objectives; no integer point
\* in the region; an empty region; a root relaxation that is integral.
SearchProblems ==
  { [c |-> <<-3 * Scale, -Scale>>, integralityConstraints |-> <<FALSE, TRUE>>,
     branchingHeuristic |-> BRANCH_MAXFUN,
     G |-> << <<1, 1>>, <<1, 0>>, <<0, 1>> >>,
     h |-> <<2 * Scale + Scale \div 2, Scale, 2 * Scale>>],
    [c |-> <<-Scale, -3 * Scale>>, integralityConstraints |-> <<TRUE, FALSE>>,
     branchingHeuristic |-> BRANCH_MAXFUN,
     G |-> << <<1, 1>>, <<1, 0>>, <<0, 1>> >>,
     h |-> <<2 * Scale + Scale \div 2, 2 * Scale, Scale>>],
    [c |-> <<-Scale, -2 * Scale>>, integralityConstraints |-> <<FALSE, TRUE>>,
     branchingHeuristic |-> BRANCH_MAXFUN,
     G |-> << <<0, 1>>, <<0, -1>>, <<1, 0>> >>,
     h |-> <<Scale \div 2, -1, 2 * Scale>>],
    [c |-> <<-Scale, -2 * Scale>>, integralityConstraints |-> <<FALSE, TRUE>>,
     branchingHeuristic |-> BRANCH_MAXFUN,
     G |-> << <<0, 1>>, <<0, -1>>, <<1, 0>> >>,
     h |-> <<Scale, -(Scale + 1), 2 * Scale>>],
    [c |-> <<-Scale, -2 * Scale>>, integralityConstraints |-> <<FALSE, TRUE>>,
     branchingHeuristic |-> BRANCH_MAXFUN,
     G |-> << <<1, 0>>, <<0, 1>> >>,
     h |-> <<Scale + 1, 2 * Scale>>] }

InitSearch ==
  /\ prob \in SearchProblems
  /\ workers \in 1..NumWorkers
  /\ Constructed
  /\ call = Nil
  /\ out = Nil

SearchSpec == InitSearch /\ [][Next]_vars

\* the outcome the problem alone determines: the least c.x over the points
\* of the region that meet the integrality constraints
IntegerOptimum ==
  LET region == {x \in [1..Len(prob.c) -> GridVals] : SatisfiesRows(x)}
      integral == {x \in region : feasibleForIP(prob.integralityConstraints, x)}
  IN IF region = {} THEN [err |-> INITIAL_RELAXATION_NOT_FEASIBLE, z |-> 0]
     ELSE IF integral = {} THEN [err |-> NO_INTEGER_FEASIBLE_SOLUTION, z |-> 0]
     ELSE [err |-> NoErr,
           z |-> Dot(prob.c, CHOOSE x \in integral :
                               \A y \in integral : Dot(prob.c, x) <= Dot(prob.c, y))]

EndedUncancelled == mainPc = "done" /\ ~ctxDone

\* C12: a search that ends without cancellation returns the outcome the
\* problem determines (error kind and objective value z), the same for
\* every worker count and every interleaving of the workers, the buffer
\* manager and the decision loop
C12_OutcomeIndependentOfSchedule ==
  EndedUncancelled =>
    /\ result.err = IntegerOptimum.err
    /\ result.err = NoErr => result.sol.z = IntegerOptimum.z

\* a search with several workers ended in which the incumbent was replaced:
\* the worse integer-feasible child was decided first
C12_Witness ==
  /\ EndedUncancelled
  /\ workers > 1
  /\ Cardinality({i \in Decisions : sink[i].decision = BETTER_THAN_INCUMBENT_FEASIBLE}) = 2

\* variables of the caller's problem that are gone from / still in the
\* presolved problem of a postSolve call
Eliminated == {v \in Range(call.p.variables) : v \notin Range(out.st.p.variables)}

Survived == Range(call.p.variables) \cap Range(out.st.p.variables)

\* C21: after postSolve every variable that presolve eliminated as fixed is
\* in the solution map under its name with the value of its fixed bound
\* (lower = upper), and every variable that survived presolve has the value
\* it had in the raw solution
C21_PostSolveRestoresFixed ==
  (Returned("postSolve") /\ ~out.ret.panic) =>
    LET byName == out.ret.solution.byName
        var(v) == out.st.mem.vars[v]
    IN /\ \A v \in Eliminated :
            /\ var(v).name \in DOMAIN byName
            /\ var(v).lower = var(v).upper
            /\ byName[var(v).name] = var(v).lower
       /\ \A v \in Survived :
            /\ var(v).name \in DOMAIN byName
            /\ byName[var(v).name] = out.raw[var(v).name]
\* C24: postSolve applies the undoers in exactly the reverse of the order in
\* which the presolve steps pushed them, and each undoer exactly once
C24_UndoersLifo ==
  Returned("postSolve") =>
    LET n == Len(out.st.undoers)
    IN /\ Len(out.ret.applied) = n
       /\ \A k \in 1..n : out.ret.applied[k] = n - k + 1

\* postSolve has run over two undoers pushed by two passes of preSolve
C24_Witness ==
  /\ Returned("postSolve")
  /\ Len(out.st.undoers) >= 2
  /\ ~out.ret.panic

\* the (variable name, coefficient) pairs of the constraint c of the caller
ExpressionPairs(c) ==
  LET exprs == call.mem.cons[c].expressions
  IN {<<call.mem.vars[exprs[k].variable].name, exprs[k].coef>> : k \in DOMAIN exprs}

\* the constraints of the caller with the same pairs as c
DuplicateGroup(c) ==
  {d \in Range(call.p.constraints) : ExpressionPairs(d) = ExpressionPairs(c)}

\* C22: duplicate-constraint removal leaves, for every group of constraints
\* with the same set of (variable, coefficient) pairs, exactly one constraint,
\* one with the smallest rhs of the group (equal rhs and groups of three or
\* more included); a constraint without a duplicate is kept, unchanged
C22_DuplicatesKeepSmallest ==
  Returned("removeDuplicateConstraints") =>
    LET kept == out.st.p.constraints
        keptOf(g) == {k \in DOMAIN kept : kept[k] \in g}
    IN /\ out.st.mem = call.mem
       /\ \A c \in Range(call.p.constraints) :
            /\ Cardinality(keptOf(DuplicateGroup(c))) = 1
            /\ \A k \in keptOf(DuplicateGroup(c)) : \A d \in DuplicateGroup(c) :
                 call.mem.cons[kept[k]].rhs <= call.mem.cons[d].rhs

\* C23: every solution vector solve hands back has exactly n entries, n the
\* number of variables of the problem passed in: the slack entries of the
\* standard-form conversion are removed on every path that returns a
\* vector, the partial incumbent returned on cancellation included
C23_SlackRemovedOnEveryPath ==
  (mainPc = "done" /\ result.sol.x # <<>>) => Len(result.sol.x) = Len(prob.c)

\* the outcome the four tests give the candidate cur, taken in their order
Outcome ==
  IF cur.err # NoErr THEN "error"
  ELSE IF incumbent # Nil /\ incumbent.z <= cur.z THEN WORSE_THAN_INCUMBENT
  ELSE IF feasibleForIP(intNew, cur.x) THEN BETTER_THAN_INCUMBENT_FEASIBLE
  ELSE BETTER_THAN_INCUMBENT_BRANCHING

\* the decision that the step has just passed to the instrumentation
Decided == sink'[Len(sink')].decision

\* C25: every candidate gets exactly one of four outcomes, tested in this
\* order: an LP error prunes it; else incumbent.z <= candidate.z (no
\* incumbent counting as +infinity) prunes it as worse than the incumbent;
\* else an integer-feasible candidate becomes the incumbent; else it is
\* branched into exactly two children that are both resubmitted.  Only the
\* third outcome changes the incumbent, only the fourth submits subproblems.
C25_FourOutcomesInOrder ==
  [][/\ (mainPc = "check" /\ mainPc' # "check") =>
          /\ (Outcome # BETTER_THAN_INCUMBENT_BRANCHING) =>
                /\ mainPc' = "loop" /\ pending' = <<>> /\ buffer' = buffer
                /\ Len(sink') = Len(sink) + 1 /\ sink'[Len(sink')].op = "ProcessDecision"
                /\ sink'[Len(sink')].id = cur.problem.id
                /\ IF Outcome = "error"
                   THEN Decided \in {SUBPROBLEM_IS_DEGENERATE, SUBPROBLEM_NOT_FEASIBLE}
                   ELSE Decided = Outcome
          /\ (Outcome = BETTER_THAN_INCUMBENT_FEASIBLE) => incumbent' = cur
          /\ (Outcome # BETTER_THAN_INCUMBENT_FEASIBLE) => incumbent' = incumbent
          /\ (Outcome = BETTER_THAN_INCUMBENT_BRANCHING) =>
                /\ mainPc' = "send" /\ Len(pending') = 2
                /\ pending'[1] # pending'[2]
     /\ (mainPc # "check") => incumbent' = incumbent
     /\ (buffer' # buffer /\ Len(buffer') > Len(buffer)) =>
          /\ mainPc = "send" /\ buffer' = Append(buffer, Head(pending))
     /\ (mainPc \in {"send", "announce"} /\ mainPc' = "loop") =>
          /\ pending' = <<>>
          /\ Decided = BETTER_THAN_INCUMBENT_BRANCHING
          /\ sink'[Len(sink')].id = cur.problem.id
    ]_vars

\* the root candidate has been branched, one child installed as incumbent
\* and the other pruned as worse than it
C25_Witness ==
  /\ \E i \in Decisions : sink[i].decision = WORSE_THAN_INCUMBENT
  /\ \E i \in Decisions : sink[i].decision = BETTER_THAN_INCUMBENT_BRANCHING
  /\ \E i \in Decisions : sink[i].decision = BETTER_THAN_INCUMBENT_FEASIBLE
  /\ incumbent # Nil
  /\ mainPc = "loop"

\* number of subproblems that were sent on toSolve and whose candidate
\* checkSolution has not yet finished with: in the buffer, held by a worker
\* (to be solved or solved and being posted), or being checked
Undecided ==
  Len(buffer)
  + Cardinality({w \in Workers : wProb[w] # Nil})
  + Cardinality({w \in Workers : wCand[w] # Nil})
  + (IF cur # Nil /\ caller = "mainWait" THEN 1 ELSE 0)

\* C26: each time the decision loop tests its condition, workInProgress is
\* the number of subproblems submitted to the inbox whose candidate is not
\* yet decided; it is never negative, and it is 0 only when no subproblem is
\* in the inbox, in the buffer, held by a worker or waiting as a candidate
C26_WorkInProgressCountsUndecided ==
  (mainPc = "loop") =>
    /\ workInProgress = Undecided
    /\ workInProgress >= 0
    /\ (workInProgress = 0 =>
          /\ pending = <<>> /\ buffer = <<>> /\ cur = Nil
          /\ \A w \in Workers : wProb[w] = Nil /\ wCand[w] = Nil)

\* the loop tests its condition after a child was decided, with the other
\* child solved and being posted by a worker
C26_Witness ==
  /\ mainPc = "loop"
  /\ workInProgress = 1
  /\ buffer = <<>>
  /\ \E w \in Workers : wPc[w] = "post"
  /\ Cardinality(Decisions) = 2

\* ------------------------------------------- the engine on a deeper tree
\* a milpProblem whose relaxations have several optimal vertices: the
\* objective ignores the integer-constrained x2, bounded by 0 <= x2 <= 2, so
\* a child of the root can be solved to a fractional x2 and branched again
\* while the other child is still with a worker
DeepProblems ==
  { [c |-> <<-Scale, 0>>, integralityConstraints |-> <<FALSE, TRUE>>,
     branchingHeuristic |-> BRANCH_MAXFUN,
     G |-> << <<1, 0>>, <<0, 1>> >>,
     h |-> <<Scale, 2 * Scale>>] }

InitDeep ==
  /\ prob \in DeepProblems
  /\ workers \in 1..NumWorkers
  /\ Constructed
  /\ call = Nil
  /\ out = Nil

\* the scheduling of FairSpec, for every number of workers
DeepSpec ==
  /\ InitDeep /\ [][Next]_vars
  /\ WF_vars(RootSolve) /\ WF_vars(StartSearch) /\ WF_vars(CheckSolution) /\ WF_vars(SendToSolve)
  /\ WF_vars(Announce) /\ WF_vars(LoopDone) /\ WF_vars(SolveReturn)
  /\ WF_vars(\E w \in Workers : LoopRecv(w))
  /\ SF_vars(LoopCancel)
  /\ WF_vars(BmClosed)
  /\ \A w \in Workers : WF_vars(BmSend(w)) /\ WF_vars(WorkerSolve(w)) /\ WF_vars(WorkerExit(w))

\* C27: while the search runs and is not cancelled the engine does not
\* deadlock, for every number of workers and every shape of the tree: the
\* buffer manager eventually accepts each child the decision loop
\* resubmits, even when every worker is blocked posting a candidate, and
\* every submitted subproblem is eventually solved and decided
C27_NoDeadlock ==
  /\ (mainPc = "send") ~> (mainPc = "announce")
  /\ <>(ctxDone \/ (mainPc = "done" /\ workInProgress = 0 /\ Undecided = 0))

\* the decision loop is resubmitting the children of a branched child of
\* the root while every worker is blocked posting a candidate
C27_Witness ==
  /\ ~ctxDone
  /\ mainPc = "send"
  /\ caller = "mainWait"
  /\ \A w \in Workers : w <= workers => wPc[w] = "post"

\* ids of the NewSubProblem calls made so far, the root's included
AnnouncedIds == {sink[j].id : j \in {i \in DOMAIN sink : sink[i].op = "NewSubProblem"}}

\* the subproblems that are on their way, one entry for each (the head of
\* pending is already in the buffer while it is being announced)
Held ==
  (IF mainPc = "announce" THEN Tail(pending) ELSE pending) \o buffer
  \o SelectSeq([w \in Workers |-> wProb[w]], LAMBDA q : q # Nil)
  \o SelectSeq([w \in Workers |-> IF wCand[w] # Nil THEN wCand[w].problem ELSE Nil],
               LAMBDA q : q # Nil)

\* C28: the root subproblem has id 0; every subproblem submitted to the
\* inbox has an id different from the id of every other subproblem of the
\* run and greater than every id assigned before it; its parent id is the id
\* of the subproblem whose candidate was branched to create it
C28_IdsUniqueIncreasing ==
  /\ RootProblem.id = 0
  /\ \A i, j \in DOMAIN Held : i # j => Held[i].id # Held[j].id
  /\ \A i \in DOMAIN Held : Held[i].id > 0 /\ Held[i].id <= idCurrent
  /\ (mainPc = "send") =>
        /\ \A id \in AnnouncedIds : id < Head(pending).id
        /\ \A k \in DOMAIN pending :
             /\ pending[k].parent = cur.problem.id
             /\ k > 1 => pending[k].id > pending[k - 1].id

\* the children of a branched child of the root are being submitted while
\* the other child of the root is still on its way
C28_Witness ==
  /\ mainPc = "send"
  /\ cur.problem.id # 0
  /\ Len(Held) >= 3

\* the parent the instrumentation was told for the subproblem id
ParentOf(id) ==
  (CHOOSE e \in {sink[j] : j \in {i \in DOMAIN sink : sink[i].op = "NewSubProblem"}} :
     e.id = id).parent

\* number of branchings on the path from the root to the subproblem id
RECURSIVE DepthOf(_)
DepthOf(id) == IF id = 0 THEN 0 ELSE DepthOf(ParentOf(id)) + 1

\* C29: every subproblem of the tree has as many bnb constraints as its
\* depth (the number of branchings on the path from the root), and the list
\* of a child is the list of its parent, in the same order, followed by
\* exactly one new constraint
C29_BnbListIsPath ==
  /\ Len(RootProblem.bnbConstraints) = 0
  /\ \A i \in DOMAIN Held :
       Len(Held[i].bnbConstraints) = DepthOf(Held[i].parent) + 1
  /\ (mainPc = "send") =>
        \A k \in DOMAIN pending :
          LET parentList == cur.problem.bnbConstraints
              childList == pending[k].bnbConstraints
          IN /\ Len(childList) = Len(parentList) + 1
             /\ SubSeq(childList, 1, Len(parentList)) = parentList
             /\ childList[Len(childList)] \notin Range(parentList)

\* a subproblem two branchings below the root is on its way
C29_Witness ==
  \E i \in DOMAIN Held :
     /\ Len(Held[i].bnbConstraints) = 2
     /\ DepthOf(Held[i].parent) = 1

\* every subproblem the engine has created and not yet discarded: on its
\* way, or the problem of the candidate being checked or of the incumbent
Created ==
  Range(Held)
  \cup (IF cur # Nil THEN {cur.problem} ELSE {})
  \cup (IF incumbent # Nil THEN {incumbent.problem} ELSE {})

\* C30: in every subproblem the engine creates, the branched variable of
\* each bnb constraint is an index whose integrality mask entry is true:
\* never a continuous variable, never a slack variable
C30_BranchedVariableIsInteger ==
  \A p \in Created : \A k \in DOMAIN p.bnbConstraints :
     LET j == p.bnbConstraints[k].branchedVariable
     IN /\ j >= 0 /\ j < Len(prob.c)
        /\ prob.integralityConstraints[j + 1]

\* a subproblem branched twice, from a problem with a continuous variable
\* and slack columns
C30_Witness ==
  /\ "G" \in DOMAIN prob
  /\ \E i \in DOMAIN prob.integralityConstraints : ~prob.integralityConstraints[i]
  /\ \E p \in Created : Len(p.bnbConstraints) = 2

\* C37: the presolve loop stops only at a fixed point: when preSolve returns
\* no remaining variable has its lower bound equal to its upper bound, so
\* every variable a pass found implicitly fixed at 0 has been removed by the
\* fixed-variable elimination of a later pass
C37_PreSolveFixedPoint ==
  Returned("preSolve") =>
    \A v \in Range(out.st.p.variables) :
       out.st.mem.vars[v].lower # out.st.mem.vars[v].upper

\* C39: solve reports the cancellation error only when the search was cut
\* short by the signal: when the decision loop ended because no work was in
\* progress, or the root relaxation was returned directly, the result is the
\* normal outcome (the solution or NO_INTEGER_FEASIBLE_SOLUTION), also when
\* the signal fires after the loop has ended and before solve returns
C39_CancelledOnlyWhenCutShort ==
  (mainPc = "done" /\ result.err = Cancelled) => StoppedByCancel

\* the variable the candidate's problem was branched on last
LastBranched == call.s.problem.bnbConstraints[Len(call.s.problem.bnbConstraints)].branchedVariable

\* number of steps forward, wrapping after the last index, from the index
\* after the last branched variable to index k
StepsTo(k) == (k - LastBranched - 1 + NumVars) % NumVars

\* C35: with at least one bnb constraint the Naive heuristic returns the
\* first integer-constrained index met when stepping forward from the last
\* branched variable, wrapping from the last index to index 0; it
\* terminates whenever some index is integer constrained
C35_NaiveNextConstrained ==
  (Returned("naiveBranchPoint")
     /\ Len(call.s.problem.bnbConstraints) > 0
     /\ IntegerConstrained(prob.integralityConstraints) # {}) =>
    /\ out.j \in IntegerConstrained(prob.integralityConstraints)
    /\ \A k \in IntegerConstrained(prob.integralityConstraints) : StepsTo(out.j) <= StepsTo(k)

\* the cursor has wrapped: the last branch was on the last variable and the
\* heuristic returns index 0
C35_Witness ==
  /\ Returned("naiveBranchPoint")
  /\ Len(call.s.problem.bnbConstraints) > 0
  /\ LastBranched = NumVars - 1
  /\ out.j = 0
  /\ prob.integralityConstraints[NumVars]

\* the candidate cur is integer feasible and has no LP error
IntegerFeasible(s) == s.err = NoErr /\ feasibleForIP(intNew, s.x)

\* C38: when the search ends without cancellation the returned incumbent is
\* the best integer-feasible candidate of the run: its z is at most the z of
\* every integer-feasible candidate a worker produced, and there is an
\* incumbent whenever an integer-feasible candidate without LP error was
\* produced.  Stated step by step: the decision on an integer-feasible
\* candidate leaves an incumbent that is at least as good, the incumbent
\* never gets worse, and a loop that ends with no work in progress has
\* decided every candidate and returns the incumbent.
C38_IncumbentIsBest ==
  [][/\ (mainPc = "check" /\ mainPc' # "check" /\ IntegerFeasible(cur)) =>
          /\ incumbent' # Nil
          /\ IntegerFeasible(incumbent')
          /\ incumbent'.z <= cur.z
     /\ (incumbent # Nil) => (incumbent' # Nil /\ incumbent'.z <= incumbent.z)
     /\ (mainPc = "loop" /\ mainPc' = "returned" /\ workInProgress = 0) =>
          /\ Undecided = 0
          /\ returned' = incumbent
     /\ (mainPc = "returned" /\ mainPc' = "done" /\ toSolveClosed
           /\ ~StoppedByCancel /\ ~ctxDone /\ incumbent # Nil) =>
          /\ result'.err = NoErr
          /\ result'.sol.z = incumbent.z
    ]_vars

\* a search has ended without cancellation after a worker's candidate was
\* pruned against the incumbent that solve returns
C38_Witness ==
  /\ EndedUncancelled
  /\ toSolveClosed
  /\ incumbent # Nil
  /\ result.sol.z = incumbent.z
  /\ \E i \in Decisions : sink[i].decision = WORSE_THAN_INCUMBENT

\* NewTreeLogger: an empty node map; panicked records a fatal check
NewTreeLogger == [nodes |-> {}, solved |-> {}, panicked |-> FALSE]

\* TreeLogger.NewSubProblem: fatal if the id is already a key of the map
NewSubProblem(t, e) ==
  IF e.id \in t.nodes THEN [t EXCEPT !.panicked = TRUE]
  ELSE [t EXCEPT !.nodes = @ \cup {e.id}]

\* TreeLogger.ProcessDecision: fatal if the id is not a key of the map
ProcessDecision(t, e) ==
  IF e.id \notin t.nodes THEN [t EXCEPT !.panicked = TRUE]
  ELSE [t EXCEPT !.solved = @ \cup {e.id}]

\* the TreeLogger after it has received the first k calls of the sink
RECURSIVE TreeLoggerAfter(_)
TreeLoggerAfter(k) ==
  IF k = 0 THEN NewTreeLogger
  ELSE IF TreeLoggerAfter(k - 1).panicked THEN TreeLoggerAfter(k - 1)
  ELSE IF sink[k].op = "NewSubProblem" THEN NewSubProblem(TreeLoggerAfter(k - 1), sink[k])
  ELSE ProcessDecision(TreeLoggerAfter(k - 1), sink[k])

\* C40: with a TreeLogger as the sink no run triggers its fatal checks:
\* no id is announced twice, no decision arrives for an id that was not
\* announced, and every call to the sink is a step of the decision
\* goroutine alone (no worker or buffer-manager step changes the sink), so
\* no two calls overlap
C40_TreeLoggerNeverFatal ==
  /\ [](~TreeLoggerAfter(Len(sink)).panicked)
  /\ [][sink' # sink => /\ mainPc' # mainPc
                        /\ wPc' = wPc /\ wProb' = wProb /\ wCand' = wCand
                        /\ bmPc' = bmPc /\ buffer' = buffer]_vars

\* C40 witness: the logger has taken the announcements of the root and of
\* grandchildren and a decision on a grandchild without a fatal check
C40_Witness ==
  /\ ~TreeLoggerAfter(Len(sink)).panicked
  /\ \E i \in Decisions : DepthOf(sink[i].id) = 2
  /\ Cardinality(TreeLoggerAfter(Len(sink)).nodes) >= 5

\* the workers that hold a subproblem handed to them and not yet solved
Holding == {w \in Workers : wProb[w] # Nil}

\* C36: the buffer manager is a FIFO queue that neither loses nor
\* duplicates work: a received subproblem goes to the tail of the buffer, a
\* handover gives buffer[0] to exactly one worker and pops it, a worker gets
\* a subproblem in no other way, no subproblem is held twice, and as long as
\* the inbox is not closed a buffered subproblem is eventually handed over
C36_BufferManagerFifo ==
  /\ [](Cardinality({buffer[i].id : i \in DOMAIN buffer} \cup {wProb[w].id : w \in Holding})
          = Len(buffer) + Cardinality(Holding))
  /\ [][/\ (buffer' # buffer) =>
             \/ /\ mainPc = "send" /\ buffer' = Append(buffer, Head(pending))
                /\ wProb' = wProb
             \/ /\ buffer # <<>> /\ buffer' = Tail(buffer)
                /\ \E w \in Workers :
                      /\ wProb[w] = Nil /\ wProb'[w] = Head(buffer)
                      /\ \A v \in Workers \ {w} : wProb'[v] = wProb[v]
        /\ \A w \in Workers :
             (wProb'[w] # wProb[w] /\ wProb'[w] # Nil) =>
                (buffer # <<>> /\ wProb'[w] = Head(buffer) /\ buffer' = Tail(buffer))
       ]_vars
  /\ (buffer # <<>>) ~> (buffer = <<>> \/ toSolveClosed)

\* C36 witness: with two subproblems waiting in the buffer the older one
\* has been handed to a worker and the younger one is now at the head
C36_Witness ==
  /\ ~toSolveClosed
  /\ Len(buffer) = 1
  /\ \E w \in Holding : wProb[w].id + 1 = buffer[1].id

\* ================================================ subproblem.go on storage
\* The slices of a subProblem as Go keeps them: a slice is a backing array
\* (an address of the heap, 0 for nil) and a length; the capacity is the
\* length of the backing array. Matrices are arrays of rows.
MaxChain == 2

\* how much room beyond the requested length the runtime gives an array
\* that append allocates: a property of the build, the same for a whole run
MaxSpare == 1

NilSlice == [arr |-> 0, len |-> 0]

Contents(heap, s) == IF s.arr = 0 THEN <<>> ELSE SubSeq(heap[s.arr], 1, s.len)

Cap(heap, s) == IF s.arr = 0 THEN 0 ELSE Len(heap[s.arr])

\* *mat.Dense: nil, or the rows of the matrix
NilDense == [nil |-> TRUE, rows |-> <<>>]

Dense(rows) == [nil |-> FALSE, rows |-> rows]

DenseAt(heap, ptr) == IF ptr = 0 THEN NilDense ELSE Dense(heap[ptr])

\* the zero value of bnbConstraint
ZeroConstraint == [branchedVariable |-> 0, hsharp |-> 0, gsharp |-> <<>>]

\* make([]T, n): a fresh array of n zero values
Make(heap, n, zero) ==
  [heap |-> Append(heap, [k \in 1..n |-> zero]),
   s |-> [arr |-> Len(heap) + 1, len |-> n]]

\* the builtin copy(dst, src): the first min(len(dst), len(src)) cells of
\* dst's array are overwritten
CopyInto(heap, dst, src) ==
  IF dst.len = 0 \/ src.len = 0 THEN heap
  ELSE [heap EXCEPT ![dst.arr] =
          [k \in DOMAIN @ |-> IF k <= dst.len /\ k <= src.len
                              THEN heap[src.arr][k] ELSE @[k]]]

\* the builtin append(s, v): in place when the capacity allows it, else a
\* new array with the old contents, v, and spare cells
GoAppend(heap, s, v, spare, zero) ==
  IF s.len < Cap(heap, s)
  THEN [heap |-> [heap EXCEPT ![s.arr][s.len + 1] = v],
        s |-> [arr |-> s.arr, len |-> s.len + 1]]
  ELSE [heap |-> Append(heap, Contents(heap, s) \o <<v>> \o [k \in 1..spare |-> zero]),
        s |-> [arr |-> Len(heap) + 1, len |-> s.len + 1]]

\* variant of copyStored: the child takes over the slice of the receiver
\* instead of a fresh array
copySharedList(heap, p) ==
  [heap |-> heap, new |-> [p EXCEPT !.parent = p.id, !.branchHeuristic = 0]]

\* subProblem.copy: c, A, b, G, h and the mask are the receiver's; the bnb
\* list is a fresh array of the receiver's length, filled by copy()
copyStored(heap, p) ==
  LET m == Make(heap, p.bnbConstraints.len, ZeroConstraint)
  IN [heap |-> CopyInto(m.heap, m.s, p.bnbConstraints),
      new |-> [p EXCEPT !.parent = p.id, !.branchHeuristic = 0,
                        !.bnbConstraints = m.s]]

\* subProblem.getChild
getChildStored(heap, p, branchOn, factor, smallerOrEqualThan, spare) ==
  LET child == copyStored(heap, p)
      newConstraint == [branchedVariable |-> branchOn,
                        hsharp |-> smallerOrEqualThan,
                        gsharp |-> UnitRow(p.c.len, branchOn, factor)]
      a == GoAppend(child.heap, child.new.bnbConstraints, newConstraint, spare,
                    ZeroConstraint)
  IN [heap |-> a.heap, child |-> [child.new EXCEPT !.bnbConstraints = a.s]]

\* solution.branch lines 229-240 on the variable branchOn: p1, then p2
branchStored(heap, p, branchOn, currentCoeff, spare) ==
  LET r1 == getChildStored(heap, p, branchOn, 1, Floor(currentCoeff), spare)
      r2 == getChildStored(r1.heap, p, branchOn, -1, -(Floor(currentCoeff) + Scale), spare)
  IN [heap |-> r2.heap,
      p1 |-> [r1.child EXCEPT !.id = @ + 1],
      p2 |-> [r2.child EXCEPT !.id = @ + 2]]

\* combineInequalities lines 63-68, from the k-th bnb constraint on:
\* h = append(h, constr.hsharp)
RECURSIVE AppendHsharps(_, _, _, _, _)
AppendHsharps(heap, h, bnb, k, spare) ==
  IF k > Len(bnb) THEN [heap |-> heap, s |-> h]
  ELSE LET r == GoAppend(heap, h, bnb[k].hsharp, spare, 0)
       IN AppendHsharps(r.heap, r.s, bnb, k + 1, spare)

\* combineInequalities lines 62-65: the gsharp vectors one after the other
RECURSIVE BnbGvects(_, _)
BnbGvects(bnb, k) ==
  IF k > Len(bnb) THEN <<>> ELSE bnb[k].gsharp \o BnbGvects(bnb, k + 1)

\* mat.NewDense(r, c, data): row i is data[(i-1)*c + 1 .. i*c]
NewDense(r, c, data) == [i \in 1..r |-> SubSeq(data, (i - 1) * c + 1, i * c)]

\* variant of combineInequalities: the bnb rows are stacked on top of G
combineInequalitiesBnbOnTop(heap, p, spare) ==
  LET bnb == Contents(heap, p.bnbConstraints)
      r == AppendHsharps(heap, p.h, bnb, 1, spare)
      bnbG == NewDense(Len(bnb), p.c.len, BnbGvects(bnb, 1))
  IN IF Len(bnb) > 0
     THEN [heap |-> r.heap, h |-> r.s,
           G |-> IF p.G = 0 \/ heap[p.G] = <<>> THEN Dense(bnbG)
                 ELSE Dense(bnbG \o heap[p.G])]
     ELSE IF p.G # 0 THEN [heap |-> heap, h |-> p.h, G |-> Dense(heap[p.G])]
     ELSE [heap |-> heap, h |-> NilSlice, G |-> NilDense]

\* subProblem.combineInequalities: bnbG, Gnew and the copy of G are fresh
\* matrices (values); h is the slice the appends produced
combineInequalities(heap, p, spare) ==
  LET bnb == Contents(heap, p.bnbConstraints)
      r == AppendHsharps(heap, p.h, bnb, 1, spare)
      bnbG == NewDense(Len(bnb), p.c.len, BnbGvects(bnb, 1))
  IN IF Len(bnb) > 0
     THEN [heap |-> r.heap, h |-> r.s,
           G |-> IF p.G = 0 \/ heap[p.G] = <<>> THEN Dense(bnbG)
                 ELSE Dense(heap[p.G] \o bnbG)]
     ELSE IF p.G # 0 THEN [heap |-> heap, h |-> p.h, G |-> Dense(heap[p.G])]
     ELSE [heap |-> heap, h |-> NilSlice, G |-> NilDense]

\* variant of convertToEqualities: the indicators of the slack variables
\* are not set
convertToEqualitiesNoSlack(c, A, b, G, h) ==
  LET nVar == Len(c)
      nCons == Len(b)
      nIneq == Len(h)
  IN [cNew |-> [j \in 1..(nVar + nIneq) |-> IF j <= nVar THEN c[j] ELSE 0],
      bNew |-> [i \in 1..(nCons + nIneq) |-> IF i <= nCons THEN b[i] ELSE h[i - nCons]],
      aNew |-> [i \in 1..(nCons + nIneq) |-> [j \in 1..(nVar + nIneq) |->
                  IF i <= nCons
                  THEN IF ~A.nil /\ j <= nVar THEN A.rows[i][j] ELSE 0
                  ELSE IF j <= nVar THEN G.rows[i - nCons][j] ELSE 0]]]

\* convertToEqualities: c with nIneq zeros, b then h, and aNew with A top
\* left (if A is not nil), G below it and the indicators of the slack
\* variables on the diagonal of the bottom right block
convertToEqualities(c, A, b, G, h) ==
  LET nVar == Len(c)
      nCons == Len(b)
      nIneq == Len(h)
  IN [cNew |-> [j \in 1..(nVar + nIneq) |-> IF j <= nVar THEN c[j] ELSE 0],
      bNew |-> [i \in 1..(nCons + nIneq) |-> IF i <= nCons THEN b[i] ELSE h[i - nCons]],
      aNew |-> [i \in 1..(nCons + nIneq) |-> [j \in 1..(nVar + nIneq) |->
                  IF i <= nCons
                  THEN IF ~A.nil /\ j <= nVar THEN A.rows[i][j] ELSE 0
                  ELSE IF j <= nVar THEN G.rows[i - nCons][j]
                  ELSE IF j - nVar = i - nCons THEN 1 ELSE 0]]]

\* ---- the milpProblem the root is made from (what toSolveable builds):
\* one equality row or none, mG inequality rows (upper bounds), and h with
\* the capacity its appends left it
OrigC == [i \in 1..NumVars |-> -i]

OrigMask == [i \in 1..NumVars |-> TRUE]

OrigA(hasA) == IF hasA THEN <<[i \in 1..NumVars |-> 1]>> ELSE <<>>

OrigB(hasA) == IF hasA THEN <<2 * Scale>> ELSE <<>>

OrigG(mG) == [k \in 1..mG |-> UnitRow(NumVars, (k - 1) % NumVars, 1)]

OrigH(mG) == [k \in 1..mG |-> k * Scale]

\* the subProblem literal of both constructors over the heap slots
\* 1: c, 2: mask, 3: A, 4: b, 5: G, 6: h, 7: the empty bnb list
RootStored(nVar, hasA, nCons, mG) ==
  [id |-> 0, parent |-> 0,
   c |-> [arr |-> 1, len |-> nVar],
   integralityConstraints |-> [arr |-> 2, len |-> nVar],
   A |-> IF hasA THEN 3 ELSE 0,
   b |-> IF nCons > 0 THEN [arr |-> 4, len |-> nCons] ELSE NilSlice,
   G |-> IF mG > 0 THEN 5 ELSE 0,
   h |-> IF mG > 0 THEN [arr |-> 6, len |-> mG] ELSE NilSlice,
   branchHeuristic |-> BRANCH_MAXFUN,
   bnbConstraints |-> [arr |-> 7, len |-> 0]]

\* ilp.go toInitialSubProblem: c, A, b, G, h of the milpProblem handed on
InitialShared(hasA, mG, hspare) ==
  [heap |-> << OrigC, OrigMask, OrigA(hasA), OrigB(hasA), OrigG(mG),
               OrigH(mG) \o [k \in 1..hspare |-> 0], <<>> >>,
   root |-> RootStored(NumVars, hasA, Len(OrigB(hasA)), mG)]

\* toInitialSubproblem (part_006): the inequalities are folded into A
\* first, G and h of the subProblem stay nil
InitialConverted(hasA, mG) ==
  LET e == convertToEqualities(OrigC, IF hasA THEN Dense(OrigA(hasA)) ELSE NilDense,
                               OrigB(hasA), Dense(OrigG(mG)), OrigH(mG))
  IN [heap |-> << e.cNew, OrigMask \o [k \in 1..mG |-> FALSE], e.aNew, e.bNew,
                  <<>>, <<>>, <<>> >>,
      root |-> RootStored(Len(e.cNew), TRUE, Len(e.bNew), 0)]

InitStored ==
  /\ prob = Nil
  /\ workers = 1
  /\ Constructed
  /\ \E hasA \in BOOLEAN, mG \in 0..NumCons, hspare \in 0..MaxSpare, converted \in BOOLEAN,
        spare \in 0..MaxSpare :
       /\ hasA \/ mG > 0
       /\ converted => (mG > 0 /\ hspare = 0)
       /\ (mG = 0) => (hspare = 0)
       /\ \E i \in { IF converted THEN InitialConverted(hasA, mG)
                     ELSE InitialShared(hasA, mG, hspare) } :
            call = [heap |-> i.heap, store |-> <<i.root>>, spare |-> spare,
                    solving |-> [w \in Workers |-> [sub |-> 0, G |-> NilDense, h |-> NilSlice]],
                    solved |-> {}, branched |-> {}]
  /\ out = Nil

\* the worker w takes the stored subproblem i, the oldest one no worker
\* has taken yet (bufferManager hands them out in order): solve line 176.
\* The workers run the same code, so of the idle ones the first takes it.
CombineStored(w, i) ==
  /\ call.solving[w].sub = 0
  /\ \A v \in 1..(w - 1) : call.solving[v].sub # 0
  /\ i \in DOMAIN call.store
  /\ i \notin call.solved
  /\ \A v \in Workers : call.solving[v].sub # i
  /\ \A k \in 1..(i - 1) : k \in call.solved \/ \E v \in Workers : call.solving[v].sub = k
  /\ \E r \in {combineInequalities(call.heap, call.store[i], call.spare)} :
         /\ call' = [call EXCEPT !.heap = r.heap,
                                 !.solving[w] = [sub |-> i, G |-> r.G, h |-> r.h]]
         /\ out' = [fn |-> "combineInequalities", p |-> call.store[i],
                    G0 |-> DenseAt(call.heap, call.store[i].G),
                    h0 |-> Contents(call.heap, call.store[i].h),
                    bnb |-> Contents(call.heap, call.store[i].bnbConstraints),
                    G |-> r.G, h |-> Contents(r.heap, r.h)]
  /\ UNCHANGED engine

\* solve lines 183-202 of worker w: the conversion reads c, A, b and the
\* combined h; without inequalities lp.Simplex gets c, A, b themselves
FinishStored(w) ==
  /\ call.solving[w].sub # 0
  /\ LET i == call.solving[w].sub
         p == call.store[i]
         G == call.solving[w].G
         c == Contents(call.heap, p.c)
         A == DenseAt(call.heap, p.A)
         b == Contents(call.heap, p.b)
         h == Contents(call.heap, call.solving[w].h)
     IN /\ call' = [call EXCEPT !.solving[w] = [sub |-> 0, G |-> NilDense, h |-> NilSlice],
                                !.solved = @ \cup {i}]
        /\ out' = IF G.nil
                  THEN [fn |-> "Simplex", c |-> c, A |-> A, b |-> b]
                  ELSE [fn |-> "convertToEqualities", c |-> c, A |-> A, b |-> b,
                        G |-> G, h |-> h, ret |-> convertToEqualities(c, A, b, G, h)]
  /\ UNCHANGED engine

\* checkSolution lines 236-250 on the candidate of stored subproblem i:
\* branch, then the ids of idGenerator.Next()
BranchStored(i, branchOn) ==
  /\ i \in call.solved
  /\ i \notin call.branched
  /\ call.store[i].bnbConstraints.len < MaxChain
  /\ Len(call.store) + 2 <= 1 + 2 * MaxChain
  /\ \E r \in {branchStored(call.heap, call.store[i], branchOn, Scale \div 2, call.spare)} :
         /\ call' = [call EXCEPT !.heap = r.heap,
                                 !.store = @ \o << [r.p1 EXCEPT !.id = Len(call.store)],
                                                   [r.p2 EXCEPT !.id = Len(call.store) + 1] >>,
                                 !.branched = @ \cup {i}]
         /\ out' = [fn |-> "branch", parent |-> i]
  /\ UNCHANGED engine

NextStored ==
  \/ \E w \in Workers, i \in 1..(1 + 2 * MaxChain) : CombineStored(w, i)
  \/ \E w \in Workers : FinishStored(w)
  \/ \E i \in 1..(1 + 2 * MaxChain), branchOn \in 0..(NumVars - 1) : BranchStored(i, branchOn)

StoredSpec == InitStored /\ [][NextStored]_vars

\* the bnb list of the stored subproblem i as its slice shows it
ListOf(i) == Contents(call.heap, call.store[i].bnbConstraints)

\* the index in the store of the parent of the stored subproblem i
ParentStored(i) == call.store[i].parent + 1

\* C31: creating a child never changes the bnb list of its parent, and the
\* lists of two different subproblems never share storage: every stored
\* subproblem has a backing array of its own, a child's list is its parent's
\* list followed by its own constraint (so neither the sibling's constraint
\* nor a descendant's is visible in it), and no step - a branching, or the
\* solves of siblings by different workers - changes any cell of the
\* backing array of an existing subproblem's list
C31_ChildListsOwnStorage ==
  /\ [](/\ \A i, j \in DOMAIN call.store :
             i # j => call.store[i].bnbConstraints.arr # call.store[j].bnbConstraints.arr
        /\ \A i \in DOMAIN call.store :
             i > 1 => /\ Len(ListOf(i)) = Len(ListOf(ParentStored(i))) + 1
                      /\ SubSeq(ListOf(i), 1, Len(ListOf(i)) - 1) = ListOf(ParentStored(i)))
  /\ [][\A i \in DOMAIN call.store :
           /\ call'.store[i] = call.store[i]
           /\ call'.heap[call.store[i].bnbConstraints.arr]
                = call.heap[call.store[i].bnbConstraints.arr]]_vars

\* C31 witness: arrays are allocated with room to spare, a child of the
\* root has children of its own, and two siblings are being solved by two
\* workers at the same time
C31_Witness ==
  /\ call.spare > 0
  /\ \E i \in DOMAIN call.store : i > 1 /\ ParentStored(i) > 1
                                  /\ Cap(call.heap, call.store[ParentStored(i)].bnbConstraints)
                                       > call.store[ParentStored(i)].bnbConstraints.len
  /\ \E v, w \in Workers :
       /\ v # w /\ call.solving[v].sub > 1 /\ call.solving[w].sub > 1
       /\ ParentStored(call.solving[v].sub) = ParentStored(call.solving[w].sub)

\* C33: combineInequalities returns nil, nil exactly when the subproblem
\* has no bnb constraints and no G of its own; otherwise the matrix is the
\* rows of G (if any) on top, then one row for each bnb constraint in the
\* order of the list, with the constraint's coefficient at its branched
\* variable and zero elsewhere, and the vector is h followed by the hsharp
\* values in the same order
C33_CombinedShape ==
  (out # Nil /\ out.fn = "combineInequalities") =>
    /\ out.G.nil <=> (out.bnb = <<>> /\ out.G0.nil)
    /\ out.G.nil => out.h = <<>>
    /\ ~out.G.nil =>
         /\ Len(out.G.rows) = Len(out.G0.rows) + Len(out.bnb)
         /\ SubSeq(out.G.rows, 1, Len(out.G0.rows)) = out.G0.rows
         /\ \A k \in DOMAIN out.bnb :
              LET row == out.G.rows[Len(out.G0.rows) + k]
              IN /\ Len(row) = out.p.c.len
                 /\ row[out.bnb[k].branchedVariable + 1] \in {1, -1}
                 /\ row = out.bnb[k].gsharp
                 /\ \A j \in DOMAIN row : j # out.bnb[k].branchedVariable + 1 => row[j] = 0
         /\ out.h = out.h0 \o [k \in DOMAIN out.bnb |-> out.bnb[k].hsharp]

\* C33 witness: a subproblem with rows G of its own and two bnb
\* constraints, on different variables, has been combined
C33_Witness ==
  /\ out # Nil /\ out.fn = "combineInequalities"
  /\ ~out.G0.nil /\ Len(out.h0) > 0 /\ Len(out.bnb) = 2
  /\ out.bnb[1].branchedVariable # out.bnb[2].branchedVariable
  /\ Len(out.G.rows) = Len(out.h)

\* C34: for (c, A, b, G, h) with m_A equality rows, m_G inequality rows and
\* n variables convertToEqualities returns c followed by m_G zeros, b
\* followed by h, and a matrix of m_A + m_G rows and n + m_G columns with A
\* top left, zero top right, G bottom left and the m_G x m_G identity
\* bottom right; with A nil (and so b empty) it has the m_G bottom rows only
C34_StandardFormBlocks ==
  (out # Nil /\ out.fn = "convertToEqualities") =>
    LET n == Len(out.c)
        mA == IF out.A.nil THEN 0 ELSE Len(out.A.rows)
        mG == Len(out.G.rows)
        ret == out.ret
    IN /\ mG = Len(out.h) /\ mA = Len(out.b)
       /\ ret.cNew = out.c \o [k \in 1..mG |-> 0]
       /\ ret.bNew = out.b \o out.h
       /\ Len(ret.aNew) = mA + mG
       /\ \A i \in 1..(mA + mG) : Len(ret.aNew[i]) = n + mG
       /\ \A i \in 1..mA :
            /\ SubSeq(ret.aNew[i], 1, n) = out.A.rows[i]
            /\ \A j \in (n + 1)..(n + mG) : ret.aNew[i][j] = 0
       /\ \A i \in 1..mG :
            /\ SubSeq(ret.aNew[mA + i], 1, n) = out.G.rows[i]
            /\ \A j \in 1..mG : ret.aNew[mA + i][n + j] = (IF i = j THEN 1 ELSE 0)

\* C34 witness: a conversion with an equality row and at least two
\* inequality rows (one of G, one of a bnb constraint) has returned
C34_Witness ==
  /\ out # Nil /\ out.fn = "convertToEqualities"
  /\ ~out.A.nil /\ Len(out.A.rows) > 0
  /\ Len(out.G.rows) >= 2
  /\ Len(out.ret.aNew) = Len(out.A.rows) + Len(out.G.rows)

\* the backing arrays of c, A, b, G, h and the integrality mask of the
\* stored subproblems, which copy() hands from parent to child
SharedArrays ==
  UNION { { call.store[i].c.arr, call.store[i].integralityConstraints.arr,
            call.store[i].A, call.store[i].b.arr, call.store[i].G,
            call.store[i].h.arr } : i \in DOMAIN call.store } \ {0}

\* C32: solving a subproblem (combineInequalities, convertToEqualities,
\* the LP solver) writes to no cell of the arrays c, A, b, G, h and mask
\* that the subproblem shares with the others, the h that
\* combineInequalities extends included
C32_SolveWritesNothingShared ==
  [][(call'.solving # call.solving) =>
        \A a \in SharedArrays : call'.heap[a] = call.heap[a]]_vars

====
